---- MODULE Spec2Model ----
(***************************************************************************)
(* Model of the document-ingestion pipeline of docai-analysis-platform:    *)
(*   - POST /api/documents/upload        (upload route)                    *)
(*   - POST /api/documents/process       (process route)                   *)
(*   - processDocumentQueue / retryDocumentProcessing (lib/queue)          *)
(*   - processDocument and the extractors' error wrapping (lib/processors) *)
(*   - the Redis result cache            (lib/cache/redis-cache.ts)        *)
(* Strings are sequences of tokens, so that concatenation and "contains"   *)
(* are computed.  Timestamps (updatedAt, errorAt, lastRetryAt) are left    *)
(* out: nothing below reads them.                                          *)
(***************************************************************************)
EXTENDS Integers, Sequences, FiniteSets, Bags, TLC

(***************************************************************************)
(* Bounds of the model.                                                    *)
(***************************************************************************)
MaxRuns == 2

MaxStarted == 4

(***************************************************************************)
(* Program constants.                                                      *)
(***************************************************************************)
DefaultMaxRetries == 3

\* one document is followed: a run reads and writes the row of its own
\* document only
DocIds == {1}

VARIABLES
    rows,         \* ids of the rows of the documents table
    status,       \* documents.status, per id
    metadata,     \* documents.metadata, per id
    file,         \* per id: fileType (column) and the stored object's content
    storage,      \* keys present in object storage
    vectorIndex,  \* per id: what the vector index holds for the document
    runs,         \* the bag of background promises in flight
    started,      \* number of background promises dispatched so far
    event,        \* what the last step let its caller observe: the HTTP
                  \* response of a route handler or the settling of a promise
    owner,        \* documents.userId, per id
    retryExtracts,
                  \* per id: retryDocumentProcessing calls that reached extraction
    unrecorded,   \* ids whose update to status error threw in a catch block
    configured,   \* UPSTASH_REDIS_URL and UPSTASH_REDIS_TOKEN are both set
    redisClient,  \* the module's singleton: "null" or "client"
    store,        \* the Redis store: key -> [value, ttl]
    cacheResult,  \* what the last cache operation gave its caller
    storedBy,     \* per key of the store: the call whose write it holds
    usage,        \* the rows of the usage table, in insertion order
    tracked,      \* what the last trackUsage call let its caller observe
    extractCall,  \* the extractor call under way: its arguments and what
                  \* storage and the parser library give for them
    extraction,   \* what that call gave its caller
    files,        \* DocumentUploader: the list of entries shown
    uploads,      \* DocumentUploader: the uploadFile calls awaiting fetch
    tourKey,      \* Tour: the storageKey of the mounted tour, or none
    isOpen,       \* Tour: the isOpen state
    currentStep,  \* Tour: the currentStep state
    steps,        \* Tour: steps.length of the mounted tour
    completed,    \* localStorage: the storage keys that hold 'true'
    currentPage,  \* PDFViewer: the currentPage state
    totalPages,   \* PDFViewer: the totalPages state
    zoom,         \* PDFViewer: the zoom state, in quarters
    rotation,     \* PDFViewer: the rotation state, in degrees
    savedPage,    \* localStorage: the page saved under pdf-page-<fileName>
    restoreTimer  \* PDFViewer: the page the pending restore timeout will set

docVars == <<rows, status, metadata, file, storage, vectorIndex, runs,
             started, event, owner, retryExtracts, unrecorded>>

cacheVars == <<configured, redisClient, store, cacheResult, storedBy>>

usageVars == <<usage, tracked>>

extractVars == <<extractCall, extraction>>

uploaderVars == <<files, uploads>>

tourVars == <<tourKey, isOpen, currentStep, steps, completed>>

viewerVars ==
    <<currentPage, totalPages, zoom, rotation, savedPage, restoreTimer>>

uiVars == <<uploaderVars, tourVars, viewerVars>>

vars == <<docVars, cacheVars, usageVars, extractVars, uiVars>>

(***************************************************************************)
(* Values.                                                                 *)
(***************************************************************************)
Absent == -1

NoError == <<>>

\* documents.metadata is null after the insert of the upload route
NullMetadata == [extracted |-> FALSE, error |-> NoError, retryCount |-> Absent]

\* a thrown value: an Error carrying a message, or something that is no Error
ErrorOf(msg) == [isError |-> TRUE, message |-> msg]

NotAnError == [isError |-> FALSE, message |-> <<>>]

NoThrow == [isError |-> FALSE, message |-> <<"none">>]

FileTypes == {"pdf", "docx", "xlsx"}

MimeTypes ==
    {"application/pdf",
     "application/vnd.openxmlformats-officedocument.wordprocessingml.document",
     "application/vnd.openxmlformats-officedocument.spreadsheetml.sheet",
     "image/png"}

Contains(s, t) ==
    \E i \in 0..(Len(s) - Len(t)) : SubSeq(s, i + 1, i + Len(t)) = t

(***************************************************************************)
(* Pure functions of the source.                                           *)
(***************************************************************************)
\* a fileType column that ignores the MIME type
FileTypeAlwaysPdf(mime) == "pdf"

\* upload route: the fileType column from the MIME type
FileTypeOf(mime) ==
    IF mime =
        "application/vnd.openxmlformats-officedocument.spreadsheetml.sheet"
    THEN "xlsx"
    ELSE IF mime =
        "application/vnd.openxmlformats-officedocument.wordprocessingml.document"
    THEN "docx"
    ELSE "pdf"

ExtractorPrefix(fileType) ==
    CASE fileType = "pdf" -> "Failed to process PDF: "
      [] fileType = "docx" -> "Failed to process DOCX: "
      [] fileType = "xlsx" -> "Failed to process Excel file: "

\* processPDF / processDOCX / processExcel: the catch block around the parser
WrapExtractor(fileType, e) ==
    IF e.isError
    THEN ErrorOf(<<ExtractorPrefix(fileType)>> \o e.message)
    ELSE ErrorOf(<<ExtractorPrefix(fileType), "Unknown error">>)

\* a wrapper that forgets the message of the error it caught
WrapProcessDocumentLossy(e) ==
    ErrorOf(<<"Document processing failed: ", "Unknown error">>)

\* processDocument: the catch block around the extractor call
WrapProcessDocument(e) ==
    IF e.isError
    THEN ErrorOf(<<"Document processing failed: ">> \o e.message)
    ELSE ErrorOf(<<"Document processing failed: ", "Unknown error">>)

\* a catch block that records no message
ErrorMessageUnknown(e) == <<"Unknown error">>

\* processDocumentQueue, catch block: error instanceof Error ? error.message : ...
ErrorMessage(e) == IF e.isError THEN e.message ELSE <<"Unknown error">>

\* processDocumentQueue, catch block: the metadata object written with status error
ErrorMetadata(e) ==
    [extracted |-> FALSE, error |-> ErrorMessage(e), retryCount |-> Absent]

\* processDocumentQueue, success path: metadata: processingResult.metadata
ExtractedMetadata ==
    [extracted |-> TRUE, error |-> NoError, retryCount |-> Absent]

\* retryDocumentProcessing: (document.metadata as any)?.retryCount || 0
RetryCountOf(m) == IF m.retryCount = Absent THEN 0 ELSE m.retryCount

\* retryDocumentProcessing: { ...document.metadata, retryCount: retryCount + 1 }
RetryMetadata(m, retryCount) == [m EXCEPT !.retryCount = retryCount + 1]

MaxRetriesMessage == <<"Maximum retry attempts exceeded">>

(***************************************************************************)
(* Background promises.                                                    *)
(***************************************************************************)
NewRun ==
    [pc |-> "new", doc |-> 0, user |-> "none", viaRetry |-> FALSE,
     snap |-> NullMetadata, count |-> 0, cause |-> NoThrow, err |-> NoThrow,
     log |-> <<>>]

StartRun(d, u, viaRetry) ==
    [NewRun EXCEPT !.pc = IF viaRetry THEN "retryRead" ELSE "setProcessing",
                    !.doc = d, !.user = u, !.viaRetry = viaRetry]

\* route, session, asked, form, retry: the request a response answers (the
\* handler, the session's user, the document id named, the file of an upload
\* form, the retry flag of a process request);
\* data: the response body carries fields or bytes of a document
NoEvent ==
    [kind |-> "none", code |-> 0, text |-> "", doc |-> 0, viaRetry |-> FALSE,
     cause |-> NoThrow, thrown |-> NoThrow, log |-> <<>>,
     route |-> "none", session |-> "none", asked |-> 0, data |-> FALSE,
     form |-> [hasFile |-> FALSE, mime |-> "", size |-> 0],
     retry |-> FALSE]

\* NextResponse.json({ ..., documentId }, { status: code })
Respond(code, message, documentId) ==
    [NoEvent EXCEPT !.kind = "response", !.code = code, !.text = message,
                    !.doc = documentId]

\* the response to a request that came with session and named document asked
From(route, session, asked, response) ==
    [response EXCEPT !.route = route, !.session = session, !.asked = asked]

\* a response whose body carries fields or bytes of the document
WithData(response) == [response EXCEPT !.data = TRUE]

\* the promise of a background call is fulfilled
Resolved(run) ==
    [NoEvent EXCEPT !.kind = "resolved", !.doc = run.doc,
                    !.viaRetry = run.viaRetry, !.cause = run.cause,
                    !.log = run.log]

\* the promise of a background call is rejected with e (caught and logged by
\* the route's .catch)
Rejected(run, e) ==
    [NoEvent EXCEPT !.kind = "rejected", !.doc = run.doc,
                    !.viaRetry = run.viaRetry, !.cause = run.cause,
                    !.thrown = e, !.log = run.log]

Nil == "nil"

\* the arguments of a call of a cache operation; type: the category of a
\* typed operation, "raw" for setCache; user: the user whose request the caller
\* is serving, which the operation is not given; left: the caller's
\* documentIds array as the call leaves it
NoCall ==
    [text |-> <<>>, ids |-> <<>>, type |-> "none", value |-> Nil,
     user |-> "none", left |-> <<>>]

NoCacheResult ==
    [op |-> "none", value |-> Nil, ok |-> FALSE, count |-> 0,
     raised |-> FALSE, contacted |-> FALSE, threw |-> FALSE, arg |-> NoCall]

NoTracked == [called |-> FALSE, raised |-> FALSE, logged |-> FALSE,
              inserted |-> FALSE, before |-> 0]

\* the documents table is empty and nothing is in flight
InitDocs ==
    /\ rows = {}
    /\ status = [d \in DocIds |-> "none"]
    /\ metadata = [d \in DocIds |-> NullMetadata]
    /\ file = [d \in DocIds |-> [fileType |-> "pdf", content |-> "valid"]]
    /\ storage = {}
    /\ vectorIndex = [d \in DocIds |-> "none"]
    /\ runs = EmptyBag
    /\ started = 0
    /\ event = NoEvent
    /\ owner = [d \in DocIds |-> "none"]
    /\ retryExtracts = [d \in DocIds |-> 0]
    /\ unrecorded = {}

\* the module has just been loaded: no client yet, an empty store
InitCache ==
    /\ redisClient = "null"
    /\ store = <<>>
    /\ cacheResult = NoCacheResult
    /\ storedBy = <<>>

NoExtractCall == [kind |-> "none"]

NoExtraction == [kind |-> "none"]

\* no extractor has been called directly
InitExtract ==
    /\ extractCall = NoExtractCall
    /\ extraction = NoExtraction

NoKey == "none"

NoPage == 0

\* no component is mounted yet and localStorage is empty; the states are the
\* useState initial values
InitUI ==
    /\ files = <<>>
    /\ uploads = {}
    /\ tourKey = NoKey
    /\ isOpen = FALSE
    /\ currentStep = 0
    /\ steps = 0
    /\ completed = {}
    /\ currentPage = 1
    /\ totalPages = 0
    /\ zoom = 4
    /\ rotation = 0
    /\ savedPage = NoPage
    /\ restoreTimer = NoPage

\* the usage table is empty and trackUsage has not been called
InitUsage ==
    /\ usage = <<>>
    /\ tracked = NoTracked

Init ==
    /\ InitDocs
    /\ InitCache
    /\ InitUsage
    /\ InitExtract
    /\ InitUI
    /\ configured = TRUE

(***************************************************************************)
(* POST /api/documents/upload                                              *)
(***************************************************************************)
Users == {"u1", "u2"}

NoSession == "none"

MAX_SIZE == 50 * 1024 * 1024

AllowedTypes ==
    {"application/pdf",
     "application/vnd.openxmlformats-officedocument.wordprocessingml.document",
     "application/vnd.openxmlformats-officedocument.spreadsheetml.sheet"}

Contents == {"valid", "corrupt"}

\* the id the insert gives the new row; the object key is derived from it
NextId == CHOOSE d \in DocIds \ (rows \cup storage) :
              \A e \in DocIds \ (rows \cup storage) : d <= e

UploadUnchanged ==
    UNCHANGED <<rows, status, metadata, file, storage, vectorIndex, runs,
                started, owner, retryExtracts, unrecorded, cacheVars, usageVars, extractVars, uiVars>>

\* session, the form's file (present or not, MIME type, size, bytes), whether
\* the object store accepts the put and whether the insert of the row succeeds;
\* an insert that throws after the put leaves the object where it was put
POSTUpload(session, hasFile, mime, size, content, s3ok, insertOk) ==
    LET Answer(code, message, documentId) ==
            [From("POST upload", session, 0,
                  Respond(code, message, documentId))
                EXCEPT !.form = [hasFile |-> hasFile, mime |-> mime,
                                 size |-> size]]
    IN
    /\ DocIds \ (rows \cup storage) # {}
    /\ IF session = NoSession
       THEN event' = Answer(401, "Unauthorized", 0) /\ UploadUnchanged
       ELSE IF ~hasFile
       THEN event' = Answer(400, "No file provided", 0) /\ UploadUnchanged
       ELSE IF mime \notin AllowedTypes
       THEN event' = Answer(400, "Invalid file type", 0) /\ UploadUnchanged
       ELSE IF size > MAX_SIZE
       THEN event' = Answer(400, "File size exceeds 50MB limit", 0)
            /\ UploadUnchanged
       ELSE IF ~s3ok
       THEN event' = Answer(500, "Failed to upload file", 0)
            /\ UploadUnchanged
       ELSE IF ~insertOk
       THEN /\ storage' = storage \cup {NextId}
            /\ event' = Answer(500, "Failed to upload file", 0)
            /\ UNCHANGED <<rows, status, metadata, file, vectorIndex, runs,
                           started, owner, retryExtracts, unrecorded,
                           cacheVars, usageVars, extractVars, uiVars>>
       ELSE /\ storage' = storage \cup {NextId}
            /\ rows' = rows \cup {NextId}
            /\ status' = [status EXCEPT ![NextId] = "uploaded"]
            /\ metadata' = [metadata EXCEPT ![NextId] = NullMetadata]
            /\ owner' = [owner EXCEPT ![NextId] = session]
            /\ file' = [file EXCEPT ![NextId] =
                           [fileType |-> FileTypeOf(mime), content |-> content]]
            /\ event' = Answer(200, "uploaded", NextId)
            /\ UNCHANGED <<vectorIndex, runs, started, retryExtracts,
                           unrecorded, cacheVars, usageVars, extractVars, uiVars>>

(***************************************************************************)
(* POST /api/documents/process                                             *)
(***************************************************************************)
\* the bag of promises after run has become next / after run has settled
Step(run, next) == (runs (-) SetToBag({run})) (+) SetToBag({next})

Settle(run) == runs (-) SetToBag({run})

InFlight == BagToSet(runs)

RequestUnchanged ==
    UNCHANGED <<rows, status, metadata, file, storage, vectorIndex, runs,
                started, owner, retryExtracts, unrecorded, cacheVars, usageVars, extractVars, uiVars>>

\* a request body or query string without documentId
NoDocumentId == 0

\* a dispatch that starts the promise twice
DispatchTwice(new) == runs (+) SetToBag({new}) (+) SetToBag({new})

\* the bag of promises after one more is dispatched
Dispatch(new) == runs (+) SetToBag({new})

\* the response of POST /api/documents/process to { documentId: d, retry }
ProcessAnswer(session, d, retry, code, message, documentId) ==
    [From("POST process", session, d, Respond(code, message, documentId))
        EXCEPT !.retry = retry]

\* a handler that dispatches without looking at the stored status
POSTProcessUnchecked(session, d, retry) ==
    /\ d \in rows
    /\ BagCardinality(runs) < MaxRuns
    /\ started < MaxStarted
    /\ started' = started + 1
    /\ runs' = Dispatch(StartRun(d, session, retry))
    /\ event' = ProcessAnswer(session, d, retry, 200,
                              "Document processing started", d)
    /\ UNCHANGED <<rows, status, metadata, file, storage, vectorIndex, owner,
                   retryExtracts, unrecorded, cacheVars, usageVars,
                   extractVars, uiVars>>

\* body { documentId, retry } sent with a session; the handler's select, its
\* status checks and the dispatch of the background promise
POSTProcess(session, d, retry) ==
    /\ IF session = NoSession
       THEN event' = ProcessAnswer(session, d, retry, 401, "Unauthorized", 0)
            /\ RequestUnchanged
       ELSE IF d = NoDocumentId
       THEN event' = ProcessAnswer(session, d, retry, 400,
                                   "Document ID is required", 0)
            /\ RequestUnchanged
       ELSE IF d \notin rows \/ owner[d] # session
       THEN event' = ProcessAnswer(session, d, retry, 404,
                                   "Document not found", 0)
            /\ RequestUnchanged
       ELSE IF status[d] = "processing"
       THEN event' = ProcessAnswer(session, d, retry, 200,
                                   "Document is already being processed", d)
            /\ RequestUnchanged
       ELSE IF status[d] = "completed" /\ ~retry
       THEN event' = ProcessAnswer(session, d, retry, 200,
                                   "Document is already processed", d)
            /\ RequestUnchanged
       ELSE /\ BagCardinality(runs) < MaxRuns
            /\ started < MaxStarted
            /\ started' = started + 1
            /\ runs' = Dispatch(StartRun(d, session, retry))
            /\ event' = ProcessAnswer(session, d, retry, 200,
                                      "Document processing started", d)
            /\ UNCHANGED <<rows, status, metadata, file, storage, vectorIndex,
                           owner, retryExtracts, unrecorded, cacheVars,
                           usageVars, extractVars, uiVars>>

(***************************************************************************)
(* GET /api/documents/process, /api/documents/[id], .../content, .../view  *)
(***************************************************************************)
\* the select with eq(documents.id, id) and eq(documents.userId, user id)
OwnRow(session, d) == d \in rows /\ owner[d] = session

\* GET /api/documents/process?documentId=d
GETProcess(session, d) ==
    LET Answer(code, message, documentId) ==
            From("GET process", session, d, Respond(code, message, documentId))
    IN
    /\ RequestUnchanged
    /\ event' =
          IF session = NoSession THEN Answer(401, "Unauthorized", 0)
          ELSE IF d = NoDocumentId
          THEN Answer(400, "Document ID is required", 0)
          ELSE IF ~OwnRow(session, d) THEN Answer(404, "Document not found", 0)
          ELSE WithData(Answer(200, status[d], d))

\* a handler whose select leaves out the user id
GETDocumentAnyOwner(session, d, urlOk) ==
    LET Answer(code, message, documentId) ==
            From("GET document", session, d,
                 Respond(code, message, documentId))
    IN
    /\ RequestUnchanged
    /\ event' =
          IF session = NoSession THEN Answer(401, "Unauthorized", 0)
          ELSE IF d \notin rows THEN Answer(404, "Document not found", 0)
          ELSE IF ~urlOk THEN Answer(500, "Failed to get document", 0)
          ELSE WithData(Answer(200, status[d], d))

\* GET /api/documents/[id]; urlOk: getPresignedDownloadUrl returns
GETDocument(session, d, urlOk) ==
    LET Answer(code, message, documentId) ==
            From("GET document", session, d,
                 Respond(code, message, documentId))
    IN
    /\ RequestUnchanged
    /\ event' =
          IF session = NoSession THEN Answer(401, "Unauthorized", 0)
          ELSE IF ~OwnRow(session, d) THEN Answer(404, "Document not found", 0)
          ELSE IF ~urlOk THEN Answer(500, "Failed to get document", 0)
          ELSE WithData(Answer(200, status[d], d))

\* GET /api/documents/[id]/content; extractOk: processDOCXFromS3 /
\* processExcelFromS3 returns
GETContent(session, d, extractOk) ==
    LET Answer(code, message, documentId) ==
            From("GET content", session, d,
                 Respond(code, message, documentId))
    IN
    /\ RequestUnchanged
    /\ event' =
          IF session = NoSession THEN Answer(401, "Unauthorized", 0)
          ELSE IF ~OwnRow(session, d) THEN Answer(404, "Document not found", 0)
          ELSE IF file[d].fileType \notin {"docx", "xlsx"}
          THEN Answer(400, "Content endpoint only supports DOCX and Excel files", 0)
          ELSE IF status[d] # "completed"
          THEN WithData(Answer(202, status[d], d))
          ELSE IF ~extractOk THEN Answer(500, "Failed to process document", 0)
          ELSE WithData(Answer(200, file[d].fileType, d))

\* GET /api/documents/[id]/view; s3ok: getFileFromS3 returns
GETView(session, d, s3ok) ==
    LET Answer(code, message, documentId) ==
            From("GET view", session, d, Respond(code, message, documentId))
    IN
    /\ RequestUnchanged
    /\ event' =
          IF session = NoSession THEN Answer(401, "Unauthorized", 0)
          ELSE IF ~OwnRow(session, d) THEN Answer(404, "Document not found", 0)
          ELSE IF file[d].fileType # "pdf"
          THEN Answer(400, "Only PDF files are supported", 0)
          ELSE IF ~s3ok THEN Answer(500, "Failed to get document", 0)
          ELSE WithData(Answer(200, "application/pdf", d))

(***************************************************************************)
(* retryDocumentProcessing                                                 *)
(***************************************************************************)
RunUnchanged ==
    UNCHANGED <<rows, file, storage, started, owner, unrecorded, cacheVars, usageVars, extractVars, uiVars>>

\* the select, the three early exits and the retry count read from metadata
RetryRead(run) ==
    LET d == run.doc
        retryCount == RetryCountOf(metadata[d])
    IN  /\ run \in InFlight
        /\ run.pc = "retryRead"
        /\ IF d \notin rows
           THEN /\ runs' = Settle(run)
                /\ event' = Rejected(run, ErrorOf(<<"Document not found">>))
           ELSE IF status[d] = "completed"
           THEN /\ runs' = Settle(run)
                /\ event' = Resolved(run)
           ELSE IF retryCount >= DefaultMaxRetries
           THEN /\ runs' = Settle(run)
                /\ event' = Rejected(run, ErrorOf(MaxRetriesMessage))
           ELSE /\ runs' = Step(run, [run EXCEPT !.pc = "retryWrite",
                                                 !.snap = metadata[d],
                                                 !.count = retryCount])
                /\ event' = NoEvent
        /\ UNCHANGED <<status, metadata, vectorIndex, retryExtracts>>
        /\ RunUnchanged

\* the update of metadata from the row read before, then the call of
\* processDocumentQueue, which runs up to its first await
RetryWrite(run) ==
    /\ run \in InFlight
    /\ run.pc = "retryWrite"
    /\ metadata' = [metadata EXCEPT
                      ![run.doc] = RetryMetadata(run.snap, run.count)]
    /\ runs' = Step(run, [run EXCEPT !.pc = "setProcessing",
                                     !.snap = NullMetadata, !.count = 0])
    /\ event' = NoEvent
    /\ UNCHANGED <<status, vectorIndex, retryExtracts>>
    /\ RunUnchanged

(***************************************************************************)
(* processDocumentQueue                                                    *)
(***************************************************************************)
\* what processPDFFromS3 / processDOCXFromS3 / processExcelFromS3 can throw
\* for a stored object: the storage read fails, or the parser rejects the bytes
ExtractorThrows(f) ==
    {ErrorOf(<<"NoSuchKey">>)}
    \cup (IF f.content = "corrupt"
          THEN {WrapExtractor(f.fileType, ErrorOf(<<"bad format">>))}
          ELSE {})

AllExtractorThrows ==
    UNION {ExtractorThrows([fileType |-> t, content |-> c]) :
             t \in FileTypes, c \in Contents}

\* what the chunk / embed / index stage can throw
IndexThrows == {ErrorOf(<<"index unavailable">>), NotAnError}

\* run after it has gone to pc, having logged the stage it went through
Advance(run, pc, stage) ==
    [run EXCEPT !.pc = pc, !.log = Append(@, stage)]

\* a run that swallows the failure of a stage and goes on
CaughtContinues(run, stage, e, err) ==
    [run EXCEPT !.pc = CASE stage = "extract" -> "setCompleted"
                         [] stage = "chunk" -> "index"
                         [] OTHER -> "catch",
                !.log = Append(@, stage), !.cause = e, !.err = err]

\* run after a stage has thrown e, caught as err by the try block
Caught(run, stage, e, err) ==
    [run EXCEPT !.pc = "catch", !.log = Append(@, stage), !.cause = e,
                !.err = err]

CountExtract(run) ==
    retryExtracts' = [retryExtracts EXCEPT
                        ![run.doc] = IF run.viaRetry THEN @ + 1 ELSE @]

SetProcessing(run) ==
    /\ run \in InFlight
    /\ run.pc = "setProcessing"
    /\ status' = [status EXCEPT ![run.doc] = "processing"]
    /\ runs' = Step(run, Advance(run, "extract", "processing"))
    /\ event' = NoEvent
    /\ UNCHANGED <<metadata, vectorIndex, retryExtracts>>
    /\ RunUnchanged

\* processDocument returns the extracted text and metadata
ExtractOk(run) ==
    /\ run \in InFlight
    /\ run.pc = "extract"
    /\ file[run.doc].content = "valid"
    /\ runs' = Step(run, Advance(run, "setCompleted", "extract"))
    /\ CountExtract(run)
    /\ event' = NoEvent
    /\ UNCHANGED <<status, metadata, vectorIndex>>
    /\ RunUnchanged

\* processDocument throws: the extractor's error, wrapped
ExtractFail(run, e) ==
    /\ run \in InFlight
    /\ run.pc = "extract"
    /\ e \in ExtractorThrows(file[run.doc])
    /\ runs' = Step(run, Caught(run, "extract", e, WrapProcessDocument(e)))
    /\ CountExtract(run)
    /\ event' = NoEvent
    /\ UNCHANGED <<status, metadata, vectorIndex>>
    /\ RunUnchanged

\* a run that leaves the status update for after indexing
SetCompletedDeferred(run) ==
    /\ run \in InFlight
    /\ run.pc = "setCompleted"
    /\ runs' = Step(run, Advance(run, "chunk", "completed"))
    /\ event' = NoEvent
    /\ UNCHANGED <<status, metadata, vectorIndex, retryExtracts>>
    /\ RunUnchanged

SetCompleted(run) ==
    /\ run \in InFlight
    /\ run.pc = "setCompleted"
    /\ status' = [status EXCEPT ![run.doc] = "completed"]
    /\ metadata' = [metadata EXCEPT ![run.doc] = ExtractedMetadata]
    /\ runs' = Step(run, Advance(run, "chunk", "completed"))
    /\ event' = NoEvent
    /\ UNCHANGED <<vectorIndex, retryExtracts>>
    /\ RunUnchanged

\* import('../ai/chunking') and chunkDocument(text), then the call of
\* indexDocumentChunks
ChunkOk(run) ==
    /\ run \in InFlight
    /\ run.pc = "chunk"
    /\ runs' = Step(run, Advance(run, "index", "chunk"))
    /\ event' = NoEvent
    /\ UNCHANGED <<status, metadata, vectorIndex, retryExtracts>>
    /\ RunUnchanged

ChunkFail(run, e) ==
    /\ run \in InFlight
    /\ run.pc = "chunk"
    /\ e \in IndexThrows
    /\ runs' = Step(run, Caught(run, "chunk", e, e))
    /\ event' = NoEvent
    /\ UNCHANGED <<status, metadata, vectorIndex, retryExtracts>>
    /\ RunUnchanged

\* the vector index after indexDocumentChunks has upserted every chunk
IndexedAll(d) == [vectorIndex EXCEPT ![d] = "full"]

\* the vector index when indexDocumentChunks throws after some upserts
IndexedSome(d) ==
    [vectorIndex EXCEPT ![d] = IF @ = "none" THEN "partial" ELSE @]

IndexOk(run) ==
    /\ run \in InFlight
    /\ run.pc = "index"
    /\ vectorIndex' = IndexedAll(run.doc)
    /\ runs' = Settle(run)
    /\ event' = Resolved(Advance(run, "done", "index"))
    /\ UNCHANGED <<status, metadata, retryExtracts>>
    /\ RunUnchanged

IndexFail(run, e, some) ==
    /\ run \in InFlight
    /\ run.pc = "index"
    /\ e \in IndexThrows
    /\ vectorIndex' = IF some THEN IndexedSome(run.doc) ELSE vectorIndex
    /\ runs' = Step(run, Caught(run, "index", e, e))
    /\ event' = NoEvent
    /\ UNCHANGED <<status, metadata, retryExtracts>>
    /\ RunUnchanged

\* a catch block that only rethrows
CatchRethrowsOnly(run) ==
    /\ run \in InFlight
    /\ run.pc = "catch"
    /\ runs' = Settle(run)
    /\ event' = Rejected(Advance(run, "done", "error"), run.err)
    /\ UNCHANGED <<status, metadata, vectorIndex, retryExtracts>>
    /\ RunUnchanged

\* the catch block: the update to status error, then throw error
Catch(run) ==
    /\ run \in InFlight
    /\ run.pc = "catch"
    /\ status' = [status EXCEPT ![run.doc] = "error"]
    /\ metadata' = [metadata EXCEPT ![run.doc] = ErrorMetadata(run.err)]
    /\ runs' = Settle(run)
    /\ event' = Rejected(Advance(run, "done", "error"), run.err)
    /\ UNCHANGED <<vectorIndex, retryExtracts>>
    /\ RunUnchanged

(***************************************************************************)
(* The pipeline with every database statement succeeding.                  *)
(***************************************************************************)
\* the pipeline is driven by requests that pass the routes' session and
\* ownership checks: one signed-in user uploads and asks for processing
PipelineUser == "u1"

\* the MIME types uploaded in the pipeline's runs: two accepted, one refused
PipelineMimes ==
    {"application/pdf",
     "application/vnd.openxmlformats-officedocument.spreadsheetml.sheet",
     "image/png"}

Sizes == {MAX_SIZE, MAX_SIZE + 1}

Next ==
    \/ \E hasFile \in BOOLEAN, mime \in PipelineMimes, size \in Sizes,
          content \in Contents, s3ok \in BOOLEAN :
          POSTUpload(PipelineUser, hasFile, mime, size, content, s3ok, TRUE)
    \/ \E d \in DocIds, retry \in BOOLEAN :
          POSTProcess(PipelineUser, d, retry)
    \/ \E run \in InFlight : RetryRead(run)
    \/ \E run \in InFlight : RetryWrite(run)
    \/ \E run \in InFlight : SetProcessing(run)
    \/ \E run \in InFlight : ExtractOk(run)
    \/ \E run \in InFlight, e \in AllExtractorThrows : ExtractFail(run, e)
    \/ \E run \in InFlight : SetCompleted(run)
    \/ \E run \in InFlight : ChunkOk(run)
    \/ \E run \in InFlight, e \in IndexThrows : ChunkFail(run, e)
    \/ \E run \in InFlight : IndexOk(run)
    \/ \E run \in InFlight, e \in IndexThrows, some \in BOOLEAN : IndexFail(run, e, some)
    \/ \E run \in InFlight : Catch(run)

Spec == Init /\ [][Next]_vars

(***************************************************************************)
(* The pipeline when the database statements of a background promise may   *)
(* throw.  A statement that throws has changed nothing.                    *)
(***************************************************************************)
DbError == ErrorOf(<<"connection terminated">>)

\* inside the try block: the update to status processing throws
DbFailSetProcessing(run) ==
    /\ run \in InFlight
    /\ run.pc = "setProcessing"
    /\ runs' = Step(run, [run EXCEPT !.pc = "catch", !.cause = DbError,
                                     !.err = DbError])
    /\ event' = NoEvent
    /\ UNCHANGED <<status, metadata, vectorIndex, retryExtracts>>
    /\ RunUnchanged

\* inside the try block: the update to status completed throws
DbFailSetCompleted(run) ==
    /\ run \in InFlight
    /\ run.pc = "setCompleted"
    /\ runs' = Step(run, [run EXCEPT !.pc = "catch", !.cause = DbError,
                                     !.err = DbError])
    /\ event' = NoEvent
    /\ UNCHANGED <<status, metadata, vectorIndex, retryExtracts>>
    /\ RunUnchanged

\* inside the catch block: the update to status error throws, and that error
\* leaves processDocumentQueue in place of the one caught
DbFailCatch(run) ==
    /\ run \in InFlight
    /\ run.pc = "catch"
    /\ runs' = Settle(run)
    /\ event' = Rejected(run, DbError)
    /\ unrecorded' = unrecorded \cup {run.doc}
    /\ UNCHANGED <<status, metadata, vectorIndex, retryExtracts, rows, file,
                   storage, started, owner, cacheVars, usageVars, extractVars, uiVars>>

\* retryDocumentProcessing: the select throws
DbFailRetryRead(run) ==
    /\ run \in InFlight
    /\ run.pc = "retryRead"
    /\ runs' = Settle(run)
    /\ event' = Rejected(run, DbError)
    /\ UNCHANGED <<status, metadata, vectorIndex, retryExtracts>>
    /\ RunUnchanged

\* retryDocumentProcessing: the update of the retry count throws
DbFailRetryWrite(run) ==
    /\ run \in InFlight
    /\ run.pc = "retryWrite"
    /\ runs' = Settle(run)
    /\ event' = Rejected(run, DbError)
    /\ UNCHANGED <<status, metadata, vectorIndex, retryExtracts>>
    /\ RunUnchanged

DbFail ==
    \/ \E run \in InFlight : DbFailSetProcessing(run)
    \/ \E run \in InFlight : DbFailSetCompleted(run)
    \/ \E run \in InFlight : DbFailCatch(run)
    \/ \E run \in InFlight : DbFailRetryRead(run)
    \/ \E run \in InFlight : DbFailRetryWrite(run)

\* a step of some background promise: an awaited call returns or throws
RunStep ==
    \/ \E run \in InFlight : RetryRead(run)
    \/ \E run \in InFlight : RetryWrite(run)
    \/ \E run \in InFlight : SetProcessing(run)
    \/ \E run \in InFlight : ExtractOk(run)
    \/ \E run \in InFlight, e \in AllExtractorThrows : ExtractFail(run, e)
    \/ \E run \in InFlight : SetCompleted(run)
    \/ \E run \in InFlight : ChunkOk(run)
    \/ \E run \in InFlight, e \in IndexThrows : ChunkFail(run, e)
    \/ \E run \in InFlight : IndexOk(run)
    \/ \E run \in InFlight, e \in IndexThrows, some \in BOOLEAN :
          IndexFail(run, e, some)
    \/ \E run \in InFlight : Catch(run)
    \/ DbFail

NextDb == Next \/ DbFail

SpecDb == Init /\ [][NextDb]_vars

\* every call a promise awaits returns or throws in the end, so a promise in
\* flight takes its next step
FairSpecDb == SpecDb /\ WF_vars(RunStep)

(***************************************************************************)
(* The routes, called with any session and any document id.                *)
(***************************************************************************)
Sessions == Users \cup {NoSession}

\* no id, the id of the table's row, an id of no row
AskedIds == {NoDocumentId} \cup DocIds \cup {2}

\* the documents table as the pipeline leaves it: empty, or the one row
\* uploaded, being processed by a run that waits for the extractor, completed
\* and indexed, or in error after a failed extraction
InitRoutes ==
    /\ InitCache
    /\ InitUsage
    /\ InitExtract
    /\ InitUI
    /\ configured = TRUE
    /\ event = NoEvent
    /\ retryExtracts = [d \in DocIds |-> 0]
    /\ unrecorded = {}
    /\ \/ InitDocs
       \/ \E u \in Users, t \in FileTypes,
             st \in {"uploaded", "processing", "completed", "error"} :
             /\ rows = DocIds
             /\ storage = DocIds
             /\ owner = [d \in DocIds |-> u]
             /\ file = [d \in DocIds |-> [fileType |-> t, content |-> "valid"]]
             /\ status = [d \in DocIds |-> st]
             /\ metadata =
                   [d \in DocIds |->
                       CASE st = "completed" -> ExtractedMetadata
                         [] st = "error" ->
                              ErrorMetadata(WrapProcessDocument(
                                  ErrorOf(<<"NoSuchKey">>)))
                         [] OTHER -> NullMetadata]
             /\ vectorIndex =
                   [d \in DocIds |-> IF st = "completed" THEN "full" ELSE "none"]
             /\ started = IF st = "uploaded" THEN 0 ELSE 1
             /\ runs = IF st = "processing"
                       THEN SetToBag({Advance(StartRun(1, u, FALSE),
                                              "extract", "processing")})
                       ELSE EmptyBag

\* the handlers; the background promises they dispatch are followed in Spec
NextRoutes ==
    \/ \E session \in Sessions, hasFile \in BOOLEAN, mime \in MimeTypes,
          size \in Sizes, s3ok \in BOOLEAN, insertOk \in BOOLEAN :
          POSTUpload(session, hasFile, mime, size, "valid", s3ok, insertOk)
    \/ \E session \in Sessions, d \in AskedIds, retry \in BOOLEAN :
          POSTProcess(session, d, retry)
    \/ \E session \in Sessions, d \in AskedIds : GETProcess(session, d)
    \/ \E session \in Sessions, d \in AskedIds \ {NoDocumentId},
          urlOk \in BOOLEAN : GETDocument(session, d, urlOk)
    \/ \E session \in Sessions, d \in AskedIds \ {NoDocumentId},
          extractOk \in BOOLEAN : GETContent(session, d, extractOk)
    \/ \E session \in Sessions, d \in AskedIds \ {NoDocumentId},
          s3ok \in BOOLEAN : GETView(session, d, s3ok)

SpecRoutes == InitRoutes /\ [][NextRoutes]_vars

(***************************************************************************)
(* The result cache (lib/cache/redis-cache.ts).  A string is a sequence of *)
(* characters; a key starts with its category prefix, taken as one         *)
(* character.  A store call that throws has changed nothing.               *)
(***************************************************************************)
MaxEntries == 2

KeyTextLength == 100

CACHE_PREFIXES ==
    [embedding |-> "emb:", query |-> "query:", document |-> "doc:",
     summary |-> "summary:", entities |-> "entities:",
     sentiment |-> "sentiment:"]

DEFAULT_TTL ==
    [embedding |-> 60 * 60 * 24 * 7, query |-> 60 * 60,
     document |-> 60 * 60 * 24, summary |-> 60 * 60 * 24,
     entities |-> 60 * 60 * 24, sentiment |-> 60 * 60 * 24]

\* parts.join(sep)
RECURSIVE Join(_, _)
Join(parts, sep) ==
    IF parts = <<>> THEN <<>>
    ELSE IF Len(parts) = 1 THEN parts[1]
    ELSE parts[1] \o <<sep>> \o Join(Tail(parts), sep)

getCacheKey(prefix, parts) == <<CACHE_PREFIXES[prefix]>> \o Join(parts, ":")

\* a key text that is not cut
SubstringAll(text) == text

\* text.substring(0, 100)
Substring100(text) ==
    SubSeq(text, 1, IF Len(text) < KeyTextLength THEN Len(text)
                    ELSE KeyTextLength)

\* the order of UTF-16 code units, for the characters used
CharCode(c) == CASE c = ":" -> 58 [] c = "a" -> 97 [] c = "b" -> 98
                 [] c = "q" -> 113 [] c = "x" -> 120 [] c = "y" -> 121
                 [] OTHER -> 0

\* string comparison, as the default comparator of Array.prototype.sort
RECURSIVE StringLess(_, _)
StringLess(x, y) ==
    IF y = <<>> THEN FALSE
    ELSE IF x = <<>> THEN TRUE
    ELSE IF CharCode(Head(x)) # CharCode(Head(y))
    THEN CharCode(Head(x)) < CharCode(Head(y))
    ELSE StringLess(Tail(x), Tail(y))

RECURSIVE InsertSorted(_, _)
InsertSorted(x, sorted) ==
    IF sorted = <<>> THEN <<x>>
    ELSE IF StringLess(x, Head(sorted)) THEN <<x>> \o sorted
    ELSE <<Head(sorted)>> \o InsertSorted(x, Tail(sorted))

\* documentIds.sort()
RECURSIVE Sort(_)
Sort(ids) == IF ids = <<>> THEN <<>> ELSE InsertSorted(Head(ids), Sort(Tail(ids)))

\* KEYS pattern of the store: * matches any run of characters
RECURSIVE GlobMatch(_, _)
GlobMatch(pattern, key) ==
    LET stars == {i \in 1..Len(pattern) : pattern[i] = "*"}
        first == CHOOSE i \in stars : \A j \in stars : i <= j
    IN  IF stars = {} THEN pattern = key
        ELSE /\ Len(key) >= first - 1
             /\ SubSeq(key, 1, first - 1) = SubSeq(pattern, 1, first - 1)
             /\ \E n \in (first - 1)..Len(key) :
                   GlobMatch(SubSeq(pattern, first + 1, Len(pattern)),
                             SubSeq(key, n + 1, Len(key)))

\* getRedisClient(): null without credentials, else the singleton
getRedisClient == IF ~configured THEN "null" ELSE "client"

Without(st, keys) == [k \in (DOMAIN st) \ keys |-> st[k]]

With(st, key, value, ttl) ==
    [k \in (DOMAIN st) \cup {key} |->
        IF k = key THEN [value |-> value, ttl |-> ttl] ELSE st[k]]

\* getCache with the exception of the store call left uncaught
getCacheUncaught(st, key, throws) ==
    IF getRedisClient = "null"
    THEN [value |-> Nil, raised |-> FALSE, contacted |-> FALSE,
          threw |-> FALSE, store |-> st]
    ELSE [value |-> IF key \in DOMAIN st /\ ~throws THEN st[key].value ELSE Nil,
          raised |-> throws, contacted |-> TRUE, threw |-> throws,
          store |-> st]

\* getCache(key) on store st; throws: client.get throws
getCacheOn(st, key, throws) ==
    IF getRedisClient = "null"
    THEN [value |-> Nil, raised |-> FALSE, contacted |-> FALSE,
          threw |-> FALSE, store |-> st]
    ELSE IF throws
    THEN [value |-> Nil, raised |-> FALSE, contacted |-> TRUE,
          threw |-> TRUE, store |-> st]
    ELSE [value |-> IF key \in DOMAIN st THEN st[key].value ELSE Nil,
          raised |-> FALSE, contacted |-> TRUE, threw |-> FALSE, store |-> st]

\* setCache that always takes the branch without expiry
setCacheNoExpiry(st, key, value, ttl, throws) ==
    IF getRedisClient = "null"
    THEN [ok |-> FALSE, raised |-> FALSE, contacted |-> FALSE,
          threw |-> FALSE, store |-> st]
    ELSE IF throws
    THEN [ok |-> FALSE, raised |-> FALSE, contacted |-> TRUE,
          threw |-> TRUE, store |-> st]
    ELSE [ok |-> TRUE, raised |-> FALSE, contacted |-> TRUE, threw |-> FALSE,
          store |-> With(st, key, value, 0)]

\* setCache(key, value, ttl) on store st; ttl 0 stands for no ttl given
setCacheOn(st, key, value, ttl, throws) ==
    IF getRedisClient = "null"
    THEN [ok |-> FALSE, raised |-> FALSE, contacted |-> FALSE,
          threw |-> FALSE, store |-> st]
    ELSE IF throws
    THEN [ok |-> FALSE, raised |-> FALSE, contacted |-> TRUE,
          threw |-> TRUE, store |-> st]
    ELSE [ok |-> TRUE, raised |-> FALSE, contacted |-> TRUE, threw |-> FALSE,
          store |-> With(st, key, value, ttl)]

\* deleteCache(key) on store st
deleteCacheOn(st, key, throws) ==
    IF getRedisClient = "null"
    THEN [ok |-> FALSE, raised |-> FALSE, contacted |-> FALSE,
          threw |-> FALSE, store |-> st]
    ELSE IF throws
    THEN [ok |-> FALSE, raised |-> FALSE, contacted |-> TRUE,
          threw |-> TRUE, store |-> st]
    ELSE [ok |-> TRUE, raised |-> FALSE, contacted |-> TRUE, threw |-> FALSE,
          store |-> Without(st, {key})]

\* deleteCachePattern(pattern) on store st; throws: client.keys or client.del
\* throws
deleteCachePatternOn(st, pattern, throws) ==
    LET keys == {k \in DOMAIN st : GlobMatch(pattern, k)}
    IN  IF getRedisClient = "null"
        THEN [count |-> 0, raised |-> FALSE, contacted |-> FALSE,
              threw |-> FALSE, store |-> st]
        ELSE IF throws
        THEN [count |-> 0, raised |-> FALSE, contacted |-> TRUE,
              threw |-> TRUE, store |-> st]
        ELSE [count |-> Cardinality(keys), raised |-> FALSE,
              contacted |-> TRUE, threw |-> FALSE, store |-> Without(st, keys)]

\* invalidateDocumentCache: the loop over the four keys from position i on;
\* failing: the positions whose client.del throws
RECURSIVE invalidateFrom(_, _, _, _, _)
invalidateFrom(st, patterns, i, failing, acc) ==
    IF i > Len(patterns) THEN [acc EXCEPT !.store = st]
    ELSE LET r == deleteCacheOn(st, patterns[i], i \in failing)
         IN  invalidateFrom(r.store, patterns, i + 1, failing,
                 [count |-> acc.count + (IF r.ok THEN 1 ELSE 0),
                  raised |-> acc.raised \/ r.raised,
                  contacted |-> acc.contacted \/ r.contacted,
                  threw |-> acc.threw \/ r.threw,
                  store |-> r.store])

invalidatePatterns(documentId) ==
    <<getCacheKey("summary", <<documentId>>),
      getCacheKey("entities", <<documentId>>),
      getCacheKey("sentiment", <<documentId>>),
      getCacheKey("document", <<documentId>>)>>

embeddingKey(text) == getCacheKey("embedding", <<Substring100(text)>>)

\* a query key that keeps the ids in the order given
queryKeyUnsorted(query, documentIds) ==
    getCacheKey("query", <<Substring100(query)>> \o documentIds)

queryKey(query, documentIds) ==
    getCacheKey("query", <<Substring100(query)>> \o Sort(documentIds))

(***************************************************************************)
(* Cache operations as steps.                                              *)
(***************************************************************************)
Fits(r) == Cardinality(DOMAIN r.store) <= MaxEntries

\* the module's singleton after a call of getRedisClient()
ClientAfter == IF getRedisClient = "null" THEN redisClient ELSE "client"

ResultOf(op, r, arg) ==
    [op |-> op,
     value |-> IF "value" \in DOMAIN r THEN r.value ELSE Nil,
     ok |-> IF "ok" \in DOMAIN r THEN r.ok ELSE FALSE,
     count |-> IF "count" \in DOMAIN r THEN r.count ELSE 0,
     raised |-> r.raised, contacted |-> r.contacted, threw |-> r.threw,
     arg |-> arg]

CacheUnchanged == UNCHANGED <<docVars, configured, usageVars, extractVars, uiVars>>

\* the calls behind the entries of store st2, none of them written by this step
Kept(st2) == [k \in DOMAIN st2 |-> storedBy[k]]

\* the calls behind the entries of the store after a setter's step
Written(r, key, arg) ==
    [k \in DOMAIN r.store |-> IF r.ok /\ k = key THEN arg ELSE storedBy[k]]

\* every operation starts with getRedisClient() and returns r to its caller
Returns(op, r, arg) ==
    /\ Fits(r)
    /\ store' = r.store
    /\ redisClient' = ClientAfter
    /\ cacheResult' = ResultOf(op, r, arg)
    /\ CacheUnchanged

getCache(key, throws) ==
    LET r == getCacheOn(store, key, throws)
    IN  /\ Returns("getCache", r, NoCall)
        /\ storedBy' = Kept(r.store)

setCache(key, value, ttl, throws) ==
    LET r == setCacheOn(store, key, value, ttl, throws)
        arg == [NoCall EXCEPT !.text = key, !.type = "raw", !.value = value]
    IN  /\ Returns("setCache", r, NoCall)
        /\ storedBy' = Written(r, key, arg)

deleteCache(key, throws) ==
    LET r == deleteCacheOn(store, key, throws)
    IN  /\ Returns("deleteCache", r, NoCall)
        /\ storedBy' = Kept(r.store)

deleteCachePattern(pattern, throws) ==
    LET r == deleteCachePatternOn(store, pattern, throws)
    IN  /\ Returns("deleteCachePattern", r, NoCall)
        /\ storedBy' = Kept(r.store)

cacheEmbedding(text, embedding, throws) ==
    LET key == embeddingKey(text)
        r == setCacheOn(store, key, embedding, DEFAULT_TTL.embedding, throws)
        arg == [NoCall EXCEPT !.text = text, !.type = "embedding",
                              !.value = embedding]
    IN  /\ Returns("cacheEmbedding", r, NoCall)
        /\ storedBy' = Written(r, key, arg)

getCachedEmbedding(text, throws) ==
    LET r == getCacheOn(store, embeddingKey(text), throws)
        arg == [NoCall EXCEPT !.text = text]
    IN  /\ Returns("getCachedEmbedding", r, arg)
        /\ storedBy' = Kept(r.store)

\* documentIds.sort() sorts the caller's array in place and returns it
cacheQuery(user, query, documentIds, result, throws) ==
    LET key == queryKey(query, documentIds)
        r == setCacheOn(store, key, result, DEFAULT_TTL.query, throws)
        arg == [NoCall EXCEPT !.text = query, !.ids = documentIds,
                              !.type = "query", !.value = result,
                              !.user = user]
        called == [NoCall EXCEPT !.ids = documentIds,
                                 !.left = Sort(documentIds)]
    IN  /\ Returns("cacheQuery", r, called)
        /\ storedBy' = Written(r, key, arg)

getCachedQuery(user, query, documentIds, throws) ==
    LET r == getCacheOn(store, queryKey(query, documentIds), throws)
        arg == [NoCall EXCEPT !.text = query, !.ids = documentIds,
                              !.user = user, !.left = Sort(documentIds)]
    IN  /\ Returns("getCachedQuery", r, arg)
        /\ storedBy' = Kept(r.store)

cacheDocumentAnalysis(documentId, type, result, throws) ==
    LET key == getCacheKey(type, <<documentId>>)
        r == setCacheOn(store, key, result, DEFAULT_TTL[type], throws)
        arg == [NoCall EXCEPT !.text = documentId, !.type = type,
                              !.value = result]
    IN  /\ Returns("cacheDocumentAnalysis", r, NoCall)
        /\ storedBy' = Written(r, key, arg)

getCachedDocumentAnalysis(documentId, type, throws) ==
    LET r == getCacheOn(store, getCacheKey(type, <<documentId>>), throws)
    IN  /\ Returns("getCachedDocumentAnalysis", r, NoCall)
        /\ storedBy' = Kept(r.store)

invalidateDocumentCache(documentId, failing) ==
    LET r == invalidateFrom(store, invalidatePatterns(documentId), 1, failing,
                            [count |-> 0, raised |-> FALSE,
                             contacted |-> FALSE, threw |-> FALSE,
                             store |-> store])
    IN  /\ Returns("invalidateDocumentCache", r,
                   [NoCall EXCEPT !.text = documentId])
        /\ storedBy' = Kept(r.store)

\* the store drops an entry whose time to live has run out
Expire(key) ==
    /\ key \in DOMAIN store
    /\ store[key].ttl > 0
    /\ store' = Without(store, {key})
    /\ storedBy' = Kept(Without(store, {key}))
    /\ cacheResult' = NoCacheResult
    /\ UNCHANGED <<docVars, configured, redisClient, usageVars,
                   extractVars, uiVars>>

LongText == [i \in 1..KeyTextLength |-> "a"]

Texts == {<<"a">>, LongText \o <<"x">>, LongText \o <<"y">>}

Queries == {<<"q">>, <<"q", ":", "a">>}

IdLists == {<<<<"b">>>>, <<<<"a">>, <<"b">>>>, <<<<"b">>, <<"a">>>>}

AnalysisTypes == {"summary", "entities", "sentiment"}

AnalysedIds == {<<"a">>}

CachedValues == {"v1", "v2"}

AnalysisResults == {"v1"}

RawValues == {"v1"}

\* the sets of positions at which client.del throws in invalidateDocumentCache
FailingDeletes == {{}, {2}, {1, 4}, 1..4}

RawKeys == {<<"k">>, <<"emb:", "a">>}

Patterns == {<<"emb:", "*">>, <<"*", "a">>}

NextCache ==
    \/ \E k \in RawKeys, t \in BOOLEAN : getCache(k, t)
    \/ \E k \in RawKeys, v \in RawValues, ttl \in {0, 60}, t \in BOOLEAN :
          setCache(k, v, ttl, t)
    \/ \E k \in RawKeys, t \in BOOLEAN : deleteCache(k, t)
    \/ \E p \in Patterns, t \in BOOLEAN : deleteCachePattern(p, t)
    \/ \E x \in Texts, v \in CachedValues, t \in BOOLEAN : cacheEmbedding(x, v, t)
    \/ \E x \in Texts, t \in BOOLEAN : getCachedEmbedding(x, t)
    \/ \E q \in Queries, ids \in IdLists, v \in CachedValues, t \in BOOLEAN :
          cacheQuery(PipelineUser, q, ids, v, t)
    \/ \E q \in Queries, ids \in IdLists, t \in BOOLEAN :
          getCachedQuery(PipelineUser, q, ids, t)
    \/ \E d \in AnalysedIds, ty \in AnalysisTypes, v \in AnalysisResults,
          t \in BOOLEAN : cacheDocumentAnalysis(d, ty, v, t)
    \/ \E d \in AnalysedIds, ty \in AnalysisTypes, t \in BOOLEAN :
          getCachedDocumentAnalysis(d, ty, t)
    \/ \E d \in AnalysedIds, failing \in FailingDeletes :
          invalidateDocumentCache(d, failing)
    \/ \E k \in DOMAIN store : Expire(k)

\* the module is loaded with or without the store's credentials
InitEitherWay ==
    /\ InitDocs /\ InitCache /\ InitUsage /\ InitExtract /\ InitUI
    /\ configured \in BOOLEAN

SpecCache == InitEitherWay /\ [][NextCache]_vars

(***************************************************************************)
(* The typed cache operations called while serving the requests of several *)
(* users, with the store configured.                                       *)
(***************************************************************************)
\* the document-id lists of the requests: none, one document, two documents
ServedIdLists == {<<>>, <<<<"a">>>>, <<<<"b">>, <<"a">>>>}

ServedQueries == {<<"q">>}

NextServed ==
    \/ \E u \in Users, q \in ServedQueries, ids \in ServedIdLists,
          v \in CachedValues, t \in BOOLEAN : cacheQuery(u, q, ids, v, t)
    \/ \E u \in Users, q \in ServedQueries, ids \in ServedIdLists,
          t \in BOOLEAN : getCachedQuery(u, q, ids, t)
    \/ \E d \in AnalysedIds, ty \in AnalysisTypes, v \in AnalysisResults,
          t \in BOOLEAN : cacheDocumentAnalysis(d, ty, v, t)
    \/ \E d \in AnalysedIds, ty \in AnalysisTypes, t \in BOOLEAN :
          getCachedDocumentAnalysis(d, ty, t)
    \/ \E d \in AnalysedIds, failing \in FailingDeletes :
          invalidateDocumentCache(d, failing)
    \/ \E k \in DOMAIN store : Expire(k)

SpecServed == Init /\ [][NextServed]_vars

(***************************************************************************)
(* trackUsage                                                              *)
(***************************************************************************)
MaxUsage == 2

\* a string property of the metadata argument that is not given; a numeric
\* property that is not given is Absent
Undefined == "undefined"

\* trackUsage called without its metadata argument
NoMetadata ==
    [given |-> FALSE, documentId |-> Absent, model |-> Undefined,
     inputTokens |-> Absent, outputTokens |-> Absent,
     embeddingTokens |-> Absent]

\* the result of arithmetic on an undefined rate
NaN == -1

\* COST_PER_TOKEN, per 1K tokens, in units of 0.0001
COST_PER_TOKEN ==
    [openai |-> [input |-> 100, output |-> 300],
     anthropic |-> [input |-> 30, output |-> 150],
     gemini |-> [input |-> 5, output |-> 15],
     embedding |-> [openai |-> 1]]

\* a token count in a condition: undefined and 0 are falsy
Truthy(n) == n # Absent /\ n # 0

\* Math.round(x * 100) for x = n / 10^7: the nearest integer, halves upwards
RoundCents(n) == (2 * n + 100000) \div 200000

Plus(x, y) == IF x = NaN \/ y = NaN THEN NaN ELSE x + y

\* the cost computed from metadata.model and the token counts
ModelCost(md) ==
    IF ~(md.model # Undefined /\ Truthy(md.inputTokens)
         /\ Truthy(md.outputTokens))
    THEN 0
    ELSE IF md.model \in {"openai", "anthropic", "gemini"}
    THEN RoundCents(md.inputTokens * COST_PER_TOKEN[md.model].input
                    + md.outputTokens * COST_PER_TOKEN[md.model].output)
    ELSE IF md.model = "embedding" THEN NaN
    ELSE 0

EmbeddingCost(md) ==
    IF Truthy(md.embeddingTokens)
    THEN RoundCents(md.embeddingTokens * COST_PER_TOKEN.embedding.openai)
    ELSE 0

UsageRow(userId, action, md) ==
    [userId |-> userId,
     documentId |-> md.documentId,
     action |-> action,
     cost |-> Plus(ModelCost(md), EmbeddingCost(md)),
     metadata |-> IF md.given THEN md ELSE [given |-> TRUE]]

\* trackUsage with the failure of the insert left uncaught
trackUsageUncaught(rows0, userId, action, md, insertThrows) ==
    IF insertThrows
    THEN [rows |-> rows0, raised |-> TRUE, logged |-> FALSE,
          inserted |-> FALSE]
    ELSE [rows |-> Append(rows0, UsageRow(userId, action, md)),
          raised |-> FALSE, logged |-> FALSE, inserted |-> TRUE]

\* trackUsage on the usage table rows0; insertThrows: db.insert rejects
trackUsageOn(rows0, userId, action, md, insertThrows) ==
    IF insertThrows
    THEN [rows |-> rows0, raised |-> FALSE, logged |-> TRUE,
          inserted |-> FALSE]
    ELSE [rows |-> Append(rows0, UsageRow(userId, action, md)),
          raised |-> FALSE, logged |-> FALSE, inserted |-> TRUE]

trackUsage(userId, action, md, insertThrows) ==
    LET r == trackUsageOn(usage, userId, action, md, insertThrows)
    IN  /\ Len(r.rows) <= MaxUsage
        /\ usage' = r.rows
        /\ tracked' = [called |-> TRUE, raised |-> r.raised,
                       logged |-> r.logged, inserted |-> r.inserted,
                       before |-> Len(usage)]
        /\ UNCHANGED <<docVars, cacheVars, extractVars, uiVars>>

\* a chat call, a call with 0 input tokens, an embedding call, a call naming
\* the embedding table as its model, a call naming an unknown model
Metadatas ==
    {NoMetadata,
     [NoMetadata EXCEPT !.given = TRUE, !.documentId = 1, !.model = "openai",
                        !.inputTokens = 1500, !.outputTokens = 1500],
     [NoMetadata EXCEPT !.given = TRUE, !.model = "openai",
                        !.inputTokens = 0, !.outputTokens = 1500],
     [NoMetadata EXCEPT !.given = TRUE, !.documentId = 1,
                        !.embeddingTokens = 50000],
     [NoMetadata EXCEPT !.given = TRUE, !.model = "embedding",
                        !.inputTokens = 1500, !.outputTokens = 1500],
     [NoMetadata EXCEPT !.given = TRUE, !.model = "llama",
                        !.inputTokens = 1500, !.outputTokens = 1500]}

UsageActions == {"query", "process"}

NextUsage ==
    \E userId \in Users, action \in UsageActions, md \in Metadatas,
       insertThrows \in BOOLEAN :
        trackUsage(userId, action, md, insertThrows)

SpecUsage == Init /\ [][NextUsage]_vars

(***************************************************************************)
(* The extractors, src/lib/processors.  A call is drawn with what storage  *)
(* holds and what the parser library gives for it; the extractor is        *)
(* applied to it once.                                                     *)
(***************************************************************************)
MaxSheets == 2

MaxSheetRows == 2

MaxWidth == 2

\* the keys of the bucket
Keys == {"a.pdf", "b.pdf"}

Missing == "missing"

\* the files a key can hold: a PDF with text, a PDF without any, and bytes
\* the parser throws on
Buffers == {"report", "empty", "corrupt"}

\* the name under which the parser library reports the page count:
\* pdf-processor.ts reads numpages, the parser of pdf-processor.test.ts
\* reports numPages
PagesFields == {"numpages", "numPages"}

PagesIn(buffer) == IF buffer = "report" THEN 5 ELSE 0

\* getFileFromS3(s3Key): the buffer stored under the key, or a rejection
getFileFromS3(bucket, s3Key) ==
    IF bucket[s3Key] = Missing
    THEN [raised |-> TRUE, message |-> "S3 error", buffer |-> Missing]
    ELSE [raised |-> FALSE, message |-> "", buffer |-> bucket[s3Key]]

\* pdfParse(fileBuffer): the object the parser library resolves to, or its
\* throw; a field the library does not set reads as undefined
pdfParse(fileBuffer, pagesField) ==
    [raised |-> fileBuffer = "corrupt",
     message |-> IF fileBuffer = "corrupt" THEN "Invalid PDF" ELSE "",
     text |-> IF fileBuffer = "report" THEN "text of report" ELSE "",
     numpages |-> IF pagesField = "numpages" THEN PagesIn(fileBuffer)
                  ELSE Absent,
     numPages |-> IF pagesField = "numPages" THEN PagesIn(fileBuffer)
                  ELSE Absent,
     info |-> IF fileBuffer = "report"
              THEN [Title |-> "My Document", Author |-> "John Doe"]
              ELSE [Title |-> Undefined, Author |-> Undefined]]

NoPdfResult ==
    [text |-> "", pageCount |-> Absent,
     metadata |-> [title |-> Undefined, author |-> Undefined]]

ExtractRejected(message, fetched) ==
    [kind |-> "rejected", message |-> message, fetched |-> fetched,
     value |-> NoPdfResult]

\* processPDF that reads the page count under the parser's other name
processPDFCamelCase(fileBuffer, pagesField, fetched) ==
    LET pdfData == pdfParse(fileBuffer, pagesField)
    IN  IF pdfData.raised
        THEN ExtractRejected(<<"Failed to process PDF: ", pdfData.message>>,
                      fetched)
        ELSE [kind |-> "resolved", message |-> <<>>, fetched |-> fetched,
              value |-> [text |-> pdfData.text,
                         pageCount |-> pdfData.numPages,
                         metadata |-> [title |-> pdfData.info.Title,
                                       author |-> pdfData.info.Author]]]

\* processPDF(fileBuffer): the parser's text, numpages and info, or the
\* parser's throw wrapped
processPDF(fileBuffer, pagesField, fetched) ==
    LET pdfData == pdfParse(fileBuffer, pagesField)
    IN  IF pdfData.raised
        THEN ExtractRejected(<<"Failed to process PDF: ", pdfData.message>>,
                      fetched)
        ELSE [kind |-> "resolved", message |-> <<>>, fetched |-> fetched,
              value |-> [text |-> pdfData.text,
                         pageCount |-> pdfData.numpages,
                         metadata |-> [title |-> pdfData.info.Title,
                                       author |-> pdfData.info.Author]]]

\* processPDFFromS3 that parses whatever the bucket's first key holds
processPDFFromS3FirstKey(call) ==
    LET first == CHOOSE k \in Keys : \A other \in Keys : k <= other
        got == getFileFromS3(call.bucket, first)
    IN  IF got.raised
        THEN ExtractRejected(<<got.message>>, <<first>>)
        ELSE processPDF(got.buffer, call.pagesField, <<first>>)

\* processPDFFromS3(s3Key): the fetch is outside processPDF's try, so a
\* storage rejection leaves with its own message
processPDFFromS3On(call) ==
    LET got == getFileFromS3(call.bucket, call.s3Key)
    IN  IF got.raised
        THEN ExtractRejected(<<got.message>>, <<call.s3Key>>)
        ELSE processPDF(got.buffer, call.pagesField, <<call.s3Key>>)

processPDFFromS3 ==
    /\ extractCall.kind = "pdf"
    /\ extraction = NoExtraction
    /\ extraction' = processPDFFromS3On(extractCall)
    /\ UNCHANGED <<docVars, cacheVars, usageVars, extractCall, uiVars>>

\* a row of w cells as sheet_to_json gives it
Row(w) == [i \in 1..w |-> "x"]

\* String(cell || '')
CellString(cell) == IF cell = Nil THEN "" ELSE cell

Max(a, b) == IF a >= b THEN a ELSE b

NoTables == [tables |-> <<>>, totalRows |-> 0, totalColumns |-> 0]

\* the forEach callback without its early return
ReadSheetUnskipped(acc, sheetName, jsonData) ==
    LET headers == IF jsonData = <<>> THEN <<>>
                   ELSE [i \in 1..Len(jsonData[1]) |->
                            CellString(jsonData[1][i])]
        dataRows == IF jsonData = <<>> THEN <<>>
                ELSE SubSeq(jsonData, 2, Len(jsonData))
    IN  [tables |-> Append(acc.tables,
                           [sheetName |-> sheetName, headers |-> headers,
                            rows |-> dataRows, rowCount |-> Len(dataRows),
                            columnCount |-> Len(headers)]),
         totalRows |-> acc.totalRows + Len(dataRows),
         totalColumns |-> Max(acc.totalColumns, Len(headers))]

\* the callback of workbook.SheetNames.forEach for one sheet
ReadSheet(acc, sheetName, jsonData) ==
    IF Len(jsonData) = 0
    THEN acc
    ELSE LET headers == [i \in 1..Len(jsonData[1]) |->
                            CellString(jsonData[1][i])]
             dataRows == SubSeq(jsonData, 2, Len(jsonData))
         IN  [tables |-> Append(acc.tables,
                                [sheetName |-> sheetName,
                                 headers |-> headers, rows |-> dataRows,
                                 rowCount |-> Len(dataRows),
                                 columnCount |-> Len(headers)]),
              totalRows |-> acc.totalRows + Len(dataRows),
              totalColumns |-> Max(acc.totalColumns, Len(headers))]

RECURSIVE ReadSheets(_, _, _)
\* workbook.SheetNames.forEach from sheet i on; a sheet is named by its place
ReadSheets(workbook, i, acc) ==
    IF i > Len(workbook) THEN acc
    ELSE ReadSheets(workbook, i + 1, ReadSheet(acc, i, workbook[i]))

\* the lines one table adds to textParts
TableLines(table) ==
    <<[tag |-> "Sheet: ", index |-> table.sheetName, cells |-> <<>>],
      [tag |-> "Headers: ", index |-> 0, cells |-> table.headers]>>
    \o [r \in 1..Len(table.rows) |->
           [tag |-> "Row ", index |-> r,
            cells |-> [c \in 1..Len(table.rows[r]) |->
                          CellString(table.rows[r][c])]]]
    \o <<[tag |-> "", index |-> 0, cells |-> <<>>]>>

RECURSIVE TextParts(_, _)
\* tables.forEach from table i on
TextParts(tables, i) ==
    IF i > Len(tables) THEN <<>>
    ELSE TableLines(tables[i]) \o TextParts(tables, i + 1)

\* processExcel(fileBuffer): XLSX.read's throw wrapped, or the tables, their
\* text and the totals
processExcelOn(call) ==
    IF ~call.readable
    THEN [kind |-> "rejected",
          message |-> <<"Failed to process Excel file: ", "Unreadable">>,
          value |-> [text |-> <<>>, tables |-> <<>>,
                     metadata |-> [sheetCount |-> 0, totalRows |-> 0,
                                   totalColumns |-> 0]]]
    ELSE LET read == ReadSheets(call.workbook, 1, NoTables)
         IN  [kind |-> "resolved", message |-> <<>>,
              value |-> [text |-> TextParts(read.tables, 1),
                         tables |-> read.tables,
                         metadata |->
                             [sheetCount |-> Len(call.workbook),
                              totalRows |-> read.totalRows,
                              totalColumns |-> read.totalColumns]]]

processExcel ==
    /\ extractCall.kind = "excel"
    /\ extraction = NoExtraction
    /\ extraction' = processExcelOn(extractCall)
    /\ UNCHANGED <<docVars, cacheVars, usageVars, extractCall, uiVars>>

SeqsUpTo(S, n) == UNION {[1..k -> S] : k \in 0..n}

\* what sheet_to_json can give for a sheet: no row, or rows of some width
JsonDatas == SeqsUpTo({Row(w) : w \in 0..MaxWidth}, MaxSheetRows)

Workbooks == SeqsUpTo(JsonDatas, MaxSheets)

PdfCalls ==
    [kind : {"pdf"}, s3Key : Keys, bucket : [Keys -> Buffers \cup {Missing}],
     pagesField : PagesFields]

ExcelCalls ==
    [kind : {"excel"}, readable : {TRUE}, workbook : Workbooks]
    \cup {[kind |-> "excel", readable |-> FALSE, workbook |-> <<>>]}

InitExtractors ==
    /\ InitDocs
    /\ InitCache
    /\ InitUsage
    /\ InitUI
    /\ configured = TRUE
    /\ extractCall \in PdfCalls \cup ExcelCalls
    /\ extraction = NoExtraction

NextExtract ==
    \/ processPDFFromS3
    \/ processExcel

SpecExtract == InitExtractors /\ [][NextExtract]_vars

(***************************************************************************)
(* DocumentUploader, src/components/document/DocumentUploader.tsx          *)
(***************************************************************************)
MaxFiles == 3

\* the File objects a user can drop
FileIds == 1..MaxFiles

\* findIndex's result when no element matches, positions counted from 1
NotFound == 0

Hole == [file |-> [id |-> 0, size |-> 0, type |-> ""], progress |-> 0,
         status |-> "empty", error |-> ""]

\* { file, progress: 0, status: 'pending' }
Pending(f) == [file |-> f, progress |-> 0, status |-> "pending", error |-> ""]

\* files.findIndex((f) => f.file === file)
findIndex(list, f) ==
    IF \E i \in 1..Len(list) : list[i].file = f
    THEN CHOOSE i \in 1..Len(list) :
             /\ list[i].file = f
             /\ \A j \in 1..(i - 1) : list[j].file # f
    ELSE NotFound

\* the files state that uploadFile reads: onDrop is memoised with no
\* dependencies, so it calls the uploadFile of the first render, whose files is
\* the initial state
ClosureFiles == <<>>

\* the updater of setFiles: updated = [...prev]; updated[fileIndex] =
\* { ...updated[fileIndex], ...patch }.  At findIndex's -1 the assignment makes
\* a property, not an element; past the end it makes the element and holes
SetAt(prev, fileIndex, st, progress, error) ==
    LET Patched(e) ==
            [e EXCEPT !.status = st,
                      !.progress = IF progress = Absent THEN @ ELSE progress,
                      !.error = IF error = "" THEN @ ELSE error]
    IN  IF fileIndex = NotFound THEN prev
        ELSE IF fileIndex <= Len(prev)
        THEN [prev EXCEPT ![fileIndex] = Patched(@)]
        ELSE [i \in 1..fileIndex |->
                 IF i <= Len(prev) THEN prev[i]
                 ELSE IF i = fileIndex THEN Patched(Hole) ELSE Hole]

\* uploadFile(file) up to its await: the index lookup, the two validations,
\* the update to uploading and the fetch sent; s.files, s.uploads
UploadStarted(s, f) ==
    LET fileIndex == findIndex(ClosureFiles, f)
    IN  IF f.size > MAX_SIZE
        THEN [s EXCEPT !.files = SetAt(@, fileIndex, "error", Absent,
                                       "File size exceeds 50MB limit")]
        ELSE IF f.type \notin AllowedTypes
        THEN [s EXCEPT !.files = SetAt(@, fileIndex, "error", Absent,
                                       "Invalid file type")]
        ELSE [files |-> SetAt(s.files, fileIndex, "uploading", Absent, ""),
              uploads |-> s.uploads
                  \cup {[file |-> f, fileIndex |-> fileIndex]}]

RECURSIVE UploadEach(_, _, _)
\* newFiles.forEach((fileWithProgress) => uploadFile(fileWithProgress.file))
UploadEach(s, newFiles, i) ==
    IF i > Len(newFiles) THEN s
    ELSE UploadEach(UploadStarted(s, newFiles[i]), newFiles, i + 1)

UploaderUnchanged ==
    UNCHANGED <<docVars, cacheVars, usageVars, extractVars, tourVars,
                viewerVars>>

\* onDrop(acceptedFiles): the entries appended, then each upload started
onDrop(acceptedFiles) ==
    LET added == files \o [i \in 1..Len(acceptedFiles) |->
                              Pending(acceptedFiles[i])]
        s == UploadEach([files |-> added, uploads |-> uploads],
                        acceptedFiles, 1)
    IN  /\ \A i \in 1..Len(acceptedFiles) :
               /\ \A j \in 1..Len(files) :
                      files[j].file.id # acceptedFiles[i].id
               /\ \A u \in uploads : u.file.id # acceptedFiles[i].id
               /\ \A j \in 1..Len(acceptedFiles) :
                      i # j => acceptedFiles[i].id # acceptedFiles[j].id
        /\ files' = s.files
        /\ uploads' = s.uploads
        /\ UploaderUnchanged

\* the fetch of upload u settles: a response that is ok, or a response that
\* is not ok or a network error, both taken to the catch block
FetchSettled(u, ok) ==
    /\ u \in uploads
    /\ files' = IF ok THEN SetAt(files, u.fileIndex, "completed", 100, "")
                ELSE SetAt(files, u.fileIndex, "error", Absent,
                           "Upload failed")
    /\ uploads' = uploads \ {u}
    /\ UploaderUnchanged

\* removeFile(index): prev.filter((_, i) => i !== index)
removeFile(index) ==
    /\ index \in 1..Len(files)
    /\ files' = SubSeq(files, 1, index - 1)
                    \o SubSeq(files, index + 1, Len(files))
    /\ uploads' = uploads
    /\ UploaderUnchanged

\* useDropzone hands onDrop only files within accept and maxSize
AcceptedFiles ==
    [id : FileIds, size : {MAX_SIZE}, type : {"application/pdf"}]

Drops ==
    {<<f>> : f \in AcceptedFiles}
    \cup {<<f, g>> : f \in AcceptedFiles, g \in AcceptedFiles}

NextUploader ==
    \/ \E acceptedFiles \in Drops : onDrop(acceptedFiles)
    \/ \E u \in uploads, ok \in BOOLEAN : FetchSettled(u, ok)
    \/ \E index \in 1..Len(files) : removeFile(index)

SpecUploader == Init /\ [][NextUploader]_vars

(***************************************************************************)
(* Tour, src/components/onboarding/Tour.tsx                                *)
(***************************************************************************)
MaxSteps == 4

StorageKeys == {"docai-tour-completed", "other-tour"}

TourUnchanged ==
    UNCHANGED <<docVars, cacheVars, usageVars, extractVars, uploaderVars,
                viewerVars>>

\* the dialog and the overlay are rendered
Rendered == tourKey # NoKey /\ isOpen /\ steps # 0

\* the component mounts with n steps: the initial states, then the effect
\* that opens the tour unless localStorage holds 'true' under storageKey
MountTour(storageKey, n) ==
    /\ tourKey = NoKey
    /\ tourKey' = storageKey
    /\ steps' = n
    /\ currentStep' = 0
    /\ isOpen' = (storageKey \notin completed)
    /\ completed' = completed
    /\ TourUnchanged

\* the page is left: the component's state is gone, localStorage stays
UnmountTour ==
    /\ tourKey # NoKey
    /\ tourKey' = NoKey
    /\ steps' = 0
    /\ currentStep' = 0
    /\ isOpen' = FALSE
    /\ completed' = completed
    /\ TourUnchanged

\* handleComplete and handleSkip: localStorage.setItem(storageKey, 'true') and
\* setIsOpen(false)
StoreAndClose ==
    /\ completed' = completed \cup {tourKey}
    /\ isOpen' = FALSE
    /\ UNCHANGED <<tourKey, steps, currentStep>>

\* the Next button, which is the Complete button on the last step
handleNext ==
    /\ Rendered
    /\ IF currentStep < steps - 1
       THEN /\ currentStep' = currentStep + 1
            /\ UNCHANGED <<tourKey, steps, isOpen, completed>>
       ELSE StoreAndClose
    /\ TourUnchanged

handlePrevious ==
    /\ Rendered
    /\ currentStep' = IF currentStep > 0 THEN currentStep - 1 ELSE currentStep
    /\ UNCHANGED <<tourKey, steps, isOpen, completed>>
    /\ TourUnchanged

\* Skip Tour, the X button of the header and a click on the overlay
handleSkip ==
    /\ Rendered
    /\ StoreAndClose
    /\ TourUnchanged

\* <Dialog open={isOpen} onOpenChange={setIsOpen}>: the dialog reports its own
\* dismissal (Escape, its close control) with open = false
onOpenChange(open) ==
    /\ Rendered
    /\ isOpen' = open
    /\ UNCHANGED <<tourKey, steps, currentStep, completed>>
    /\ TourUnchanged

NextTour ==
    \/ \E storageKey \in StorageKeys, n \in 0..MaxSteps :
          MountTour(storageKey, n)
    \/ UnmountTour
    \/ handleNext
    \/ handlePrevious
    \/ handleSkip
    \/ onOpenChange(FALSE)

SpecTour == Init /\ [][NextTour]_vars

(***************************************************************************)
(* PDFViewer, src/components/document/PDFViewer.tsx.  zoom is counted in   *)
(* quarters: 4 is the initial zoom 1, 2 is 0.5 and 12 is 3.                *)
(***************************************************************************)
MaxPages == 3

ViewerUnchanged ==
    UNCHANGED <<docVars, cacheVars, usageVars, extractVars, uploaderVars,
                tourVars>>

Min(a, b) == IF a <= b THEN a ELSE b

\* the effect that saves the page: localStorage.setItem('pdf-page-<fileName>',
\* currentPage) once a page and a page count are there
Saved(page, pages) == IF page > 0 /\ pages > 0 THEN page ELSE savedPage

\* the viewer is mounted anew: the useState initial values; localStorage stays
\* and a timeout of the instance before acts on nothing
MountViewer ==
    /\ currentPage' = 1
    /\ totalPages' = 0
    /\ zoom' = 4
    /\ rotation' = 0
    /\ restoreTimer' = NoPage
    /\ savedPage' = savedPage
    /\ ViewerUnchanged

\* handleDocumentLoad for the document of this mount: a saved page within the
\* document is restored by a timeout, otherwise the page is set to 1
handleDocumentLoad(numPages) ==
    /\ totalPages = 0
    /\ totalPages' = numPages
    /\ IF savedPage # NoPage /\ savedPage >= 1 /\ savedPage <= numPages
       THEN /\ restoreTimer' = savedPage
            /\ currentPage' = currentPage
       ELSE /\ restoreTimer' = NoPage
            /\ currentPage' = 1
    /\ savedPage' = Saved(currentPage', numPages)
    /\ UNCHANGED <<zoom, rotation>>
    /\ ViewerUnchanged

\* the timeout set by handleDocumentLoad fires: setCurrentPage(page)
RestoreSavedPage ==
    /\ restoreTimer # NoPage
    /\ currentPage' = restoreTimer
    /\ restoreTimer' = NoPage
    /\ savedPage' = Saved(restoreTimer, totalPages)
    /\ UNCHANGED <<totalPages, zoom, rotation>>
    /\ ViewerUnchanged

\* scrolled: what scrollToPage returns
handlePreviousPage(scrolled) ==
    /\ currentPage' = IF currentPage > 1 /\ scrolled THEN currentPage - 1
                      ELSE currentPage
    /\ savedPage' = Saved(currentPage', totalPages)
    /\ UNCHANGED <<totalPages, zoom, rotation, restoreTimer>>
    /\ ViewerUnchanged

handleNextPage(scrolled) ==
    /\ currentPage' = IF currentPage < totalPages /\ scrolled
                      THEN currentPage + 1
                      ELSE currentPage
    /\ savedPage' = Saved(currentPage', totalPages)
    /\ UNCHANGED <<totalPages, zoom, rotation, restoreTimer>>
    /\ ViewerUnchanged

\* a page select that takes any page number
handlePageSelectUnchecked(page, scrolled) ==
    /\ currentPage' = IF scrolled THEN page ELSE currentPage
    /\ savedPage' = Saved(currentPage', totalPages)
    /\ UNCHANGED <<totalPages, zoom, rotation, restoreTimer>>
    /\ ViewerUnchanged

handlePageSelect(page, scrolled) ==
    /\ currentPage' = IF page >= 1 /\ page <= totalPages /\ scrolled
                      THEN page
                      ELSE currentPage
    /\ savedPage' = Saved(currentPage', totalPages)
    /\ UNCHANGED <<totalPages, zoom, rotation, restoreTimer>>
    /\ ViewerUnchanged

\* Math.min(zoom + 0.25, 3)
handleZoomIn ==
    /\ zoom' = Min(zoom + 1, 12)
    /\ UNCHANGED <<currentPage, totalPages, rotation, savedPage,
                   restoreTimer>>
    /\ ViewerUnchanged

\* Math.max(zoom - 0.25, 0.5)
handleZoomOut ==
    /\ zoom' = Max(zoom - 1, 2)
    /\ UNCHANGED <<currentPage, totalPages, rotation, savedPage,
                   restoreTimer>>
    /\ ViewerUnchanged

\* setRotation((prev) => (prev + 90) % 360)
handleRotate ==
    /\ rotation' = (rotation + 90) % 360
    /\ UNCHANGED <<currentPage, totalPages, zoom, savedPage, restoreTimer>>
    /\ ViewerUnchanged

NextViewer ==
    \/ MountViewer
    \/ \E numPages \in 1..MaxPages : handleDocumentLoad(numPages)
    \/ RestoreSavedPage
    \/ \E scrolled \in BOOLEAN : handlePreviousPage(scrolled)
    \/ \E scrolled \in BOOLEAN : handleNextPage(scrolled)
    \/ \E page \in 0..(MaxPages + 1), scrolled \in BOOLEAN :
          handlePageSelect(page, scrolled)
    \/ handleZoomIn
    \/ handleZoomOut
    \/ handleRotate

SpecViewer == Init /\ [][NextViewer]_vars

(***************************************************************************)
(* Properties of the processing pipeline.                                  *)
(***************************************************************************)
Last(q) == q[Len(q)]

\* the stages of a run, in the order of processDocumentQueue
StageOrder == <<"processing", "extract", "completed", "chunk", "index">>

IsPrefix(p, q) == Len(p) <= Len(q) /\ SubSeq(q, 1, Len(p)) = p

\* the stages a run has gone through when it is at pc
StagesBefore(pc) ==
    CASE pc \in {"retryRead", "retryWrite", "setProcessing"} -> 0
      [] pc = "extract" -> 1
      [] pc = "setCompleted" -> 2
      [] pc = "chunk" -> 3
      [] pc = "index" -> 4

Settled == event.kind \in {"resolved", "rejected"}

\* the settled promise went into processDocumentQueue's catch block
SettledByCatch == event.kind = "rejected" /\ event.log # <<>>

FinalWrites(log) == {i \in 1..Len(log) : log[i] \in {"completed", "error"}}

\* C1: a document whose extraction fails every time has extraction invoked by
\* at most maxRetries calls of retryDocumentProcessing
C1_RetriesBounded ==
    \A d \in rows :
        file[d].content = "corrupt" => retryExtracts[d] <= DefaultMaxRetries

\* C2: the status of a row is one of the four values, a run writes processing
\* first, and a run writes at most one of completed and error: once it has
\* written one, it does not change the status again
C2_StatusMachine ==
    /\ \A d \in rows :
          status[d] \in {"uploaded", "processing", "completed", "error"}
    /\ \A run \in InFlight :
          /\ run.log # <<>> => run.log[1] = "processing"
          /\ Cardinality(FinalWrites(run.log)) <= 1
    /\ Settled /\ event.log # <<>> =>
          /\ event.log[1] = "processing"
          /\ Cardinality(FinalWrites(event.log)) = 1

C5_StartedOnStatusOnly ==
    event.kind = "response" /\ event.text = "Document processing started" =>
        /\ status[event.doc] \in {"uploaded", "error", "completed"}
        /\ \E run \in InFlight :
              /\ run.doc = event.doc
              /\ run.pc \in {"retryRead", "setProcessing"}
              /\ status[event.doc] = "completed" => run.viaRetry

\* two runs of one document in flight, both past their first update
C5_Witness ==
    \E run \in InFlight :
        /\ run.pc = "extract"
        /\ \/ CopiesIn(run, runs) >= 2
           \/ \E other \in InFlight \ {run} :
                 other.doc = run.doc /\ other.pc = "setCompleted"

C8_StagesInOrder ==
    /\ \A run \in InFlight :
          /\ run.pc # "catch" =>
                /\ run.log = SubSeq(StageOrder, 1, StagesBefore(run.pc))
                /\ run.cause = NoThrow
          /\ run.pc = "catch" =>
                /\ IsPrefix(run.log, StageOrder)
                /\ Last(run.log) \in {"extract", "chunk", "index"}
                /\ run.cause # NoThrow
    /\ event.kind = "resolved" /\ event.log # <<>> =>
          event.log = StageOrder /\ event.cause = NoThrow

C8_Witness ==
    /\ event.kind = "resolved"
    /\ event.log = StageOrder
    /\ vectorIndex[event.doc] = "full"

\* C9: a successful upload leaves a processing run of the new document
\* dispatched by the upload handler
C9_UploadStartsProcessing ==
    event.kind = "response" /\ event.text = "uploaded" =>
        \E run \in InFlight : run.doc = event.doc

(***************************************************************************)
(* Properties of the result cache.                                         *)
(***************************************************************************)
Getters == {"getCache", "getCachedEmbedding", "getCachedQuery",
            "getCachedDocumentAnalysis"}

Setters == {"setCache", "deleteCache", "cacheEmbedding", "cacheQuery",
            "cacheDocumentAnalysis"}

Counters == {"deleteCachePattern", "invalidateDocumentCache"}

\* C10: no cache operation raises; without credentials every get gives null,
\* every set and delete gives false, the two counting deletes give 0, and the
\* store is not contacted; with credentials, a get whose store call throws
\* gives null and a set or delete whose store call throws gives false
C10_CacheNeverRaises ==
    /\ ~cacheResult.raised
    /\ ~configured /\ cacheResult.op # "none" =>
          /\ ~cacheResult.contacted
          /\ cacheResult.value = Nil
          /\ ~cacheResult.ok
          /\ cacheResult.count = 0
          /\ redisClient = "null"
          /\ store = <<>>
    /\ configured /\ cacheResult.threw =>
          /\ cacheResult.op \in Getters => cacheResult.value = Nil
          /\ cacheResult.op \in Setters => ~cacheResult.ok
          /\ cacheResult.op = "deleteCachePattern" => cacheResult.count = 0

\* a get of an entry the store holds, whose store call threw, gave null
C10_Witness ==
    /\ configured
    /\ cacheResult.op = "getCachedEmbedding"
    /\ cacheResult.threw
    /\ cacheResult.value = Nil
    /\ store # <<>>

Range(q) == {q[i] : i \in 1..Len(q)}

\* the orders in which the elements of q can be listed
Orderings(q) ==
    {p \in [1..Len(q) -> Range(q)] :
        \A x \in Range(q) :
            Cardinality({i \in 1..Len(q) : p[i] = x})
                = Cardinality({i \in 1..Len(q) : q[i] = x})}

\* the first n characters of text, all of it when it is shorter
FirstChars(text, n) ==
    [i \in 1..(IF Len(text) < n THEN Len(text) ELSE n) |-> text[i]]

\* what a get of key gives when the store call succeeds
Hit(key) == getCacheOn(store, key, FALSE).value

\* C11: a hit of getCachedQuery(q, D) gives a result that cacheQuery stored
\* for the same query text q and the same set of document ids D
C11_HitOnlyForSameQuery ==
    cacheResult.op = "getCachedQuery" /\ cacheResult.value # Nil =>
        LET by == storedBy[queryKey(cacheResult.arg.text, cacheResult.arg.ids)]
        IN  /\ by.type = "query"
            /\ by.text = cacheResult.arg.text
            /\ Range(by.ids) = Range(cacheResult.arg.ids)

\* C12: while the entry that cacheQuery(q, D, r) wrote is in the store,
\* getCachedQuery(q, D') gives r for every permutation D' of D
C12_OrderInsensitive ==
    \A k \in DOMAIN store :
        storedBy[k].type = "query" =>
            \A ids \in Orderings(storedBy[k].ids) :
                Hit(queryKey(storedBy[k].text, ids)) = storedBy[k].value

\* a hit for the ids in the other order than the one they were stored with
C12_Witness ==
    /\ cacheResult.op = "getCachedQuery"
    /\ cacheResult.value # Nil
    /\ cacheResult.arg.ids = <<<<"b">>, <<"a">>>>
    /\ LET by == storedBy[queryKey(cacheResult.arg.text, cacheResult.arg.ids)]
       IN  /\ by.type = "query"
           /\ by.text = cacheResult.arg.text
           /\ by.ids = <<<<"a">>, <<"b">>>>
           /\ by.value = cacheResult.value

\* C13: while the entry that cacheEmbedding(A, v) wrote is in the store,
\* getCachedEmbedding(B) gives v for A itself and for every text B that has
\* the first 100 characters of A
C13_EmbeddingKeyedByPrefix ==
    \A k \in DOMAIN store :
        storedBy[k].type = "embedding" =>
            \A text \in Texts :
                FirstChars(text, 100) = FirstChars(storedBy[k].text, 100)
                    => Hit(embeddingKey(text)) = storedBy[k].value

\* a hit for a text other than the one the vector was cached for
C13_Witness ==
    /\ cacheResult.op = "getCachedEmbedding"
    /\ cacheResult.value # Nil
    /\ LET by == storedBy[embeddingKey(cacheResult.arg.text)]
       IN  /\ by.type = "embedding"
           /\ by.text # cacheResult.arg.text
           /\ Len(by.text) > 100
           /\ by.value = cacheResult.value

\* C17: an entry written by a typed setter is under its category's prefix
\* and expires after 7 days (embedding), 1 hour (query) or 1 day (summary,
\* entities, sentiment)
C17_TypedSettersExpire ==
    \A k \in DOMAIN store :
        LET by == storedBy[k]
        IN  by.type # "raw" =>
              /\ store[k].ttl > 0
              /\ by.type = "embedding" =>
                    Head(k) = "emb:" /\ store[k].ttl = 604800
              /\ by.type = "query" =>
                    Head(k) = "query:" /\ store[k].ttl = 3600
              /\ by.type \in {"summary", "entities", "sentiment"} =>
                    /\ Head(k) = [summary |-> "summary:",
                                   entities |-> "entities:",
                                   sentiment |-> "sentiment:"][by.type]
                    /\ store[k].ttl = 86400

\* the store holds an analysis and a query result, each with its expiry
C17_Witness ==
    \E k1, k2 \in DOMAIN store :
        /\ storedBy[k1].type = "sentiment" /\ store[k1].ttl = 86400
        /\ storedBy[k2].type = "query" /\ store[k2].ttl = 3600

\* C14: a call of trackUsage does not throw; when the insert succeeds the
\* usage table has exactly one row more, the row of the call; when the insert
\* fails the failure is logged and the table is as before
C14_TrackUsageNeverThrows ==
    tracked.called =>
        /\ ~tracked.raised
        /\ tracked.inserted => Len(usage) = tracked.before + 1
        /\ ~tracked.inserted => tracked.logged /\ Len(usage) = tracked.before

\* a call whose insert was rejected, after one that inserted a row
C14_Witness ==
    /\ tracked.called /\ tracked.logged /\ ~tracked.inserted
    /\ Len(usage) = 1

(***************************************************************************)
(* Properties of the routes.                                               *)
(***************************************************************************)
DocRoutes == {"GET document", "GET content", "GET view", "POST process",
              "GET process"}

TableUnchanged ==
    UNCHANGED <<rows, status, metadata, file, storage, vectorIndex, runs,
                started, owner>>

Denied(e) ==
    /\ e.kind = "response"
    /\ e.route \in DocRoutes
    /\ \/ e.session = NoSession
       \/ e.asked \in rows /\ owner[e.asked] # e.session

\* C15: on the document routes a request without a session is answered 401
\* and a request naming another user's document 404, both without document
\* data, without a change to the table or the stores and without a new run
C15_OwnerOnly ==
    /\ [](Denied(event) =>
            /\ event.code = IF event.session = NoSession THEN 401 ELSE 404
            /\ ~event.data)
    /\ [][Denied(event') => TableUnchanged]_vars

\* another user's request for the bytes of a PDF was answered 404
C15_Witness ==
    /\ event.route = "GET view"
    /\ event.session \in Users
    /\ event.asked \in rows
    /\ owner[event.asked] # event.session
    /\ file[event.asked].fileType = "pdf"
    /\ event.code = 404

UploadAnswered(e) ==
    e.kind = "response" /\ e.route = "POST upload" /\ e.session # NoSession

BadForm(form) ==
    \/ ~form.hasFile
    \/ form.mime \notin
          {"application/pdf",
           "application/vnd.openxmlformats-officedocument.wordprocessingml.document",
           "application/vnd.openxmlformats-officedocument.spreadsheetml.sheet"}
    \/ form.size > 52428800

\* C16: an upload with no file, a MIME type other than PDF, DOCX or XLSX, or
\* more than 50 MB is answered 400 and leaves object storage and the table
\* as they were; an accepted upload adds exactly one row, owned by the
\* session's user, with status uploaded and the fileType of the MIME type
C16_UploadValidated ==
    /\ [](UploadAnswered(event) =>
            /\ BadForm(event.form) => event.code = 400
            /\ event.code = 200 =>
                  /\ event.doc \in rows /\ event.doc \in storage
                  /\ owner[event.doc] = event.session
                  /\ status[event.doc] = "uploaded"
                  /\ file[event.doc].fileType =
                        CASE event.form.mime = "application/pdf" -> "pdf"
                          [] event.form.mime =
                               "application/vnd.openxmlformats-officedocument.wordprocessingml.document"
                               -> "docx"
                          [] event.form.mime =
                               "application/vnd.openxmlformats-officedocument.spreadsheetml.sheet"
                               -> "xlsx")
    /\ [][UploadAnswered(event') =>
            /\ event'.code = 400 => TableUnchanged
            /\ event'.code = 200 =>
                  /\ rows' = rows \cup {event'.doc}
                  /\ event'.doc \notin rows]_vars

\* a spreadsheet of exactly 50 MB was accepted
C16_Witness ==
    /\ UploadAnswered(event)
    /\ event.code = 200
    /\ event.form.size = 52428800
    /\ file[event.doc].fileType = "xlsx"
    /\ owner[event.doc] = "u2"

(***************************************************************************)
(* Properties of the extractors.                                           *)
(***************************************************************************)
Extracted(kind) == extractCall.kind = kind /\ extraction # NoExtraction

\* C18: processPDFFromS3(key) asks storage for exactly that key; when the
\* fetch fails the call rejects, and when the file parses the result is the
\* parser's output: its text ("" for an empty PDF), the number of pages it
\* reports (0 for an empty PDF) and its Title and Author
C18_PdfIsParserOutput ==
    Extracted("pdf") =>
        LET stored == extractCall.bucket[extractCall.s3Key]
        IN  /\ extraction.fetched = <<extractCall.s3Key>>
            /\ stored = Missing => extraction.kind = "rejected"
            /\ stored = "report" =>
                /\ extraction.kind = "resolved"
                /\ extraction.value.text = "text of report"
                /\ extraction.value.pageCount = 5
                /\ extraction.value.metadata.title = "My Document"
                /\ extraction.value.metadata.author = "John Doe"
            /\ stored = "empty" =>
                /\ extraction.kind = "resolved"
                /\ extraction.value.text = ""
                /\ extraction.value.pageCount = 0

\* the sheets of a workbook that have at least one row, by place
SheetsWithRows(workbook) ==
    {i \in 1..Len(workbook) : Len(workbook[i]) > 0}

RECURSIVE SumOver(_, _)
SumOver(S, f) ==
    IF S = {} THEN 0
    ELSE LET x == CHOOSE y \in S : TRUE
         IN  f[x] + SumOver(S \ {x}, f)

\* C19: processExcel gives one table per sheet that has rows, in workbook
\* order, each with rowCount the rows after the header row and columnCount the
\* header row's width; totalRows is the sum of the rowCounts and totalColumns
\* the largest header-row width
C19_ExcelTables ==
    (Extracted("excel") /\ extraction.kind = "resolved") =>
        LET workbook == extractCall.workbook
            tables == extraction.value.tables
            places == 1..Len(tables)
        IN  /\ {tables[k].sheetName : k \in places} = SheetsWithRows(workbook)
            /\ \A k, l \in places :
                   k < l => tables[k].sheetName < tables[l].sheetName
            /\ \A k \in places :
                   LET jsonData == workbook[tables[k].sheetName]
                   IN  /\ tables[k].rowCount = Len(jsonData) - 1
                       /\ tables[k].columnCount = Len(jsonData[1])
            /\ extraction.value.metadata.totalRows =
                   SumOver(places, [k \in places |-> tables[k].rowCount])
            /\ \A k \in places :
                   extraction.value.metadata.totalColumns
                       >= Len(workbook[tables[k].sheetName][1])
            /\ \/ places = {} /\ extraction.value.metadata.totalColumns = 0
               \/ \E k \in places :
                      extraction.value.metadata.totalColumns
                          = Len(workbook[tables[k].sheetName][1])

\* a workbook whose first sheet has no row and whose second has a header row
\* and a row under it has been processed
C19_Witness ==
    /\ Extracted("excel")
    /\ extraction.kind = "resolved"
    /\ Len(extractCall.workbook) = 2
    /\ extractCall.workbook[1] = <<>>
    /\ Len(extractCall.workbook[2]) = 2
    /\ Len(extractCall.workbook[2][1]) = 2
    /\ Len(extraction.value.tables) = 1

\* C20: no step lowers or removes the retryCount stored in a document's
\* metadata
C20_RetryCountKept ==
    [][\A d \in DocIds :
          metadata[d].retryCount # Absent =>
              /\ metadata'[d].retryCount # Absent
              /\ metadata'[d].retryCount >= metadata[d].retryCount]_vars

(***************************************************************************)
(* Properties of re-processing and of the process route.                   *)
(***************************************************************************)
\* this step is the dispatch of a background promise for document d
Dispatched(d) ==
    /\ started' = started + 1
    /\ event'.route = "POST process"
    /\ event'.asked = d

\* C21: every request that starts the pipeline again on a document in status
\* error starts it through retryDocumentProcessing, which checks and increments
\* the retry count
C21_FailedRerunsConsumeRetry ==
    [][\A d \in DocIds :
          (Dispatched(d) /\ status[d] = "error") =>
              runs' = runs (+) SetToBag({StartRun(d, event'.session, TRUE)})]_vars

\* this step is the return or throw of retryDocumentProcessing before it has
\* updated anything or called processDocumentQueue
RetryRefused(run) ==
    /\ run \in InFlight
    /\ run.pc = "retryRead"
    /\ runs' = Settle(run)

\* this step is the metadata update of retryDocumentProcessing
RetryCounted(run) ==
    /\ run \in InFlight
    /\ run.pc = "retryWrite"
    /\ runs' = Step(run, [run EXCEPT !.pc = "setProcessing",
                                     !.snap = NullMetadata, !.count = 0])

\* C22: retryDocumentProcessing changes neither status nor metadata and does not
\* call processDocumentQueue when the document is unknown, completed or out of
\* retries; otherwise it adds exactly 1 to the stored retryCount before it runs
\* the pipeline from the extraction step
C22_RetryFrame ==
    [][\A run \in InFlight :
          /\ RetryRefused(run) =>
                /\ \/ run.doc \notin rows
                   \/ status[run.doc] = "completed"
                   \/ RetryCountOf(metadata[run.doc]) >= DefaultMaxRetries
                /\ UNCHANGED <<status, metadata, retryExtracts, vectorIndex>>
          /\ RetryCounted(run) =>
                /\ metadata'[run.doc].retryCount
                       = RetryCountOf(metadata[run.doc]) + 1
                /\ UNCHANGED <<status, retryExtracts>>]_vars

ProcessAnswered(e) == e.kind = "response" /\ e.route = "POST process"

\* the request passed the session, documentId and ownership checks
Authorised(e) ==
    /\ e.session # NoSession
    /\ e.asked # NoDocumentId
    /\ OwnRow(e.session, e.asked)

NothingStarted ==
    UNCHANGED <<rows, status, metadata, file, storage, vectorIndex, runs,
                started, owner, retryExtracts, unrecorded>>

\* C23: an authorised POST /api/documents/process starts nothing and changes
\* nothing when the status it reads is processing, or completed without the
\* retry flag; otherwise it dispatches exactly one promise,
\* retryDocumentProcessing with the flag and processDocumentQueue without, and
\* answers while that promise is still in flight
C23_ProcessDispatch ==
    [][(ProcessAnswered(event') /\ Authorised(event')) =>
          LET d == event'.asked
          IN  IF status[d] = "processing"
              THEN /\ event'.text = "Document is already being processed"
                   /\ NothingStarted
              ELSE IF status[d] = "completed" /\ ~event'.retry
              THEN /\ event'.text = "Document is already processed"
                   /\ NothingStarted
              ELSE /\ event'.text = "Document processing started"
                   /\ runs' = runs (+) SetToBag({StartRun(d, event'.session,
                                                         event'.retry)})
                   /\ UNCHANGED <<rows, status, metadata, file, storage,
                                  vectorIndex, owner, retryExtracts,
                                  unrecorded>>]_vars

\* a retry request on a completed document has been answered and its promise
\* is in flight
C23_Witness ==
    /\ ProcessAnswered(event)
    /\ event.text = "Document processing started"
    /\ event.retry
    /\ status[event.asked] = "completed"
    /\ StartRun(event.asked, event.session, TRUE) \in InFlight

(***************************************************************************)
(* Properties of the cache across users and documents.                     *)
(***************************************************************************)
\* C24: a hit of getCachedQuery while serving one user gives a result that
\* cacheQuery stored while serving the same user
C24_QueryCachePerUser ==
    cacheResult.op = "getCachedQuery" /\ cacheResult.value # Nil =>
        LET by == storedBy[queryKey(cacheResult.arg.text, cacheResult.arg.ids)]
        IN  by.type = "query" => by.user = cacheResult.arg.user

\* C25: after invalidateDocumentCache(d) has returned with every store call
\* succeeding, the store holds no summary, entities or sentiment entry of d and
\* no query result that was stored for a document list containing d
C25_InvalidateDeletesAll ==
    (/\ cacheResult.op = "invalidateDocumentCache"
     /\ cacheResult.contacted
     /\ ~cacheResult.threw) =>
        LET d == cacheResult.arg.text
        IN  /\ \A t \in AnalysisTypes : Hit(getCacheKey(t, <<d>>)) = Nil
            /\ \A k \in DOMAIN store :
                   storedBy[k].type = "query" => d \notin Range(storedBy[k].ids)

\* C26: cacheQuery and getCachedQuery leave the caller's documentIds array
\* with the same ids in the same order
C26_DocumentIdsUntouched ==
    cacheResult.op \in {"cacheQuery", "getCachedQuery"} =>
        cacheResult.arg.left = cacheResult.arg.ids

(***************************************************************************)
(* Properties of an upload as a whole.                                     *)
(***************************************************************************)
\* C27: an upload answered with an error leaves no object of it in object
\* storage and no row of it in the table; an upload answered with success has
\* added one object and one row, both its own
C27_UploadAllOrNothing ==
    [][(event'.kind = "response" /\ event'.route = "POST upload") =>
          IF event'.code = 200
          THEN /\ event'.doc \notin rows \cup storage
               /\ rows' = rows \cup {event'.doc}
               /\ storage' = storage \cup {event'.doc}
          ELSE rows' = rows /\ storage' = storage]_vars

(***************************************************************************)
(* Properties of the components.                                           *)
(***************************************************************************)
\* C28: the entry of every dropped file whose upload has settled shows the
\* status its upload produced, completed or error; no entry stays pending or
\* uploading once no upload of its file is in flight
C28_EntriesFollowUploads ==
    \A i \in 1..Len(files) :
        (\A u \in uploads : u.file # files[i].file) =>
            files[i].status \in {"completed", "error"}

\* C29: whenever the mounted tour goes from open to closed, 'true' is stored
\* under its storageKey, so that a later mount with that key does not open it
C29_ClosedTourStaysClosed ==
    [][(tourKey # NoKey /\ tourKey' = tourKey /\ isOpen /\ ~isOpen') =>
          tourKey \in completed']_vars

\* C30: once a document of at least one page has loaded, currentPage is
\* between 1 and totalPages, the zoom is between 0.5 and 3, and the rotation is
\* 0, 90, 180 or 270
C30_ViewerInRange ==
    totalPages >= 1 =>
        /\ currentPage >= 1
        /\ currentPage <= totalPages
        /\ zoom >= 2
        /\ zoom <= 12
        /\ rotation \in {0, 90, 180, 270}

\* the last page of a loaded document is shown at the largest zoom, rotated
\* three times
C30_Witness ==
    /\ totalPages > 1
    /\ currentPage = totalPages
    /\ zoom = 12
    /\ rotation = 270

====
